---- MODULE Spec2Model ----
(***************************************************************************)
(* A model of the in-memory tree of csmith49/tree-api: TreeService (node   *)
(* storage, parent/children index, cycle-safe re-parenting) and the zoom   *)
(* operations of ZipperService (expand, collapse).                         *)
(*                                                                         *)
(* Python values are encoded as integers so that optional arguments can be *)
(* compared: node ids are 1..MaxNodes (non-empty strings), EmptyId is the  *)
(* empty string "", None is Python's None.  Descriptions and metadata      *)
(* dictionaries are small integers as well; EmptyMeta is the dict {}.      *)
(***************************************************************************)
EXTENDS Integers, Sequences, FiniteSets, TLC

\* ------------------------------------------------------------------ bounds
MaxNodes == 4
MaxExpand == 2
MaxClock == 1

\* ------------------------------------------------------- values of Python
None == -1
EmptyId == 0
EmptyMeta == 0

NodeIds == 1..MaxNodes

\* The description and the metadata argument the calls of the structural
\* specification pass: one description, metadata left out.
OneDescription == {1}
OneMetadata == {None}

\* Python truthiness of an optional id: `if node.parent_id:` is false for
\* None and for the empty string.
Truthy(x) == x /= None /\ x /= EmptyId

\* `metadata or {}`
MetaOrEmpty(m) == IF m = None \/ m = EmptyMeta THEN EmptyMeta ELSE m

\* ------------------------------------------------------ dicts and lists
\* d[k] = v
Put(d, k, v) == [x \in (DOMAIN d) \cup {k} |-> IF x = k THEN v ELSE d[x]]

\* del d[k]
Del(d, k) == [x \in (DOMAIN d) \ {k} |-> d[x]]

\* d.get(k, [])
GetOrEmpty(d, k) == IF k \in DOMAIN d THEN d[k] ELSE <<>>

Contains(seq, x) == \E i \in 1..Len(seq) : seq[i] = x

\* index of the first occurrence of x in seq (x occurs in seq)
IndexOf(seq, x) ==
    CHOOSE i \in 1..Len(seq) : seq[i] = x /\ \A j \in 1..(i - 1) : seq[j] /= x

\* Variant of RemoveFirst: the list is left as it is.
RemoveFirst_kept(seq, x) == seq

\* list.remove(x): drops the first occurrence (x occurs in seq)
RemoveFirst(seq, x) ==
    LET i == IndexOf(seq, x)
    IN  [j \in 1..(Len(seq) - 1) |-> IF j < i THEN seq[j] ELSE seq[j + 1]]

\* ----------------------------------------------------------------- state
VARIABLES
    nodes,      \* TreeService._nodes: id -> Node
    children,   \* TreeService._children: id -> list of child ids
    root_id,    \* TreeService._root_id
    now,        \* the value datetime.now() returns
    prev,       \* the store as it was when the last call began
    last,       \* the last call: operation, arguments, outcome
    requests    \* HTTP layer: the request each worker thread is serving

vars == <<nodes, children, root_id, now, prev, last, requests>>

\* The three fields of a TreeService as one value.
Store == [nodes |-> nodes, children |-> children, root_id |-> root_id]

EmptyStore == [nodes |-> <<>>, children |-> <<>>, root_id |-> None]

\* Outcome of a call: the store it leaves and "ok" or the exception raised.
Ok(s) == [store |-> s, result |-> "ok"]
Raise(s, e) == [store |-> s, result |-> e]

\* ----------------------------------------------------------- TreeService
NewNode(node_id, parent_id, description, metadata, t) ==
    [id |-> node_id, parent_id |-> parent_id, description |-> description,
     metadata |-> MetaOrEmpty(metadata), is_leaf |-> TRUE,
     created_at |-> t, updated_at |-> t]

\* Variant of mark_leaf: the flag is written, the timestamp is not.
mark_leaf_flag_only(s, node_id, flag, t) ==
    [s EXCEPT !.nodes[node_id] = [@ EXCEPT !.is_leaf = flag]]

\* Variant of mark_leaf: only the timestamp is written.
mark_leaf_stamp_only(s, node_id, flag, t) ==
    [s EXCEPT !.nodes[node_id] = [@ EXCEPT !.updated_at = t]]

\* self._nodes[node_id] = node.model_copy(update={"is_leaf": flag,
\* "updated_at": now}) for the stored node node_id
mark_leaf(s, node_id, flag, t) ==
    [s EXCEPT !.nodes[node_id] = [@ EXCEPT !.is_leaf = flag, !.updated_at = t]]

\* Variant of is_root: the root is not recognised.
is_root_never(s, node_id) == FALSE

\* node_id == self._root_id
is_root(s, node_id) == node_id = s.root_id

\* Variant of create_node: the two checks run after the node is stored.
create_node_checked_late(s, node_id, description, parent_id, metadata, t) ==
    LET node == NewNode(node_id, parent_id, description, metadata, t)
        s1 == [s EXCEPT !.nodes = Put(@, node_id, node),
                        !.children = Put(@, node_id, <<>>)]
    IN  IF node_id \in DOMAIN s.nodes
        THEN Raise(s1, "InvalidOperation")
        ELSE IF parent_id /= None /\ parent_id \notin DOMAIN s.nodes
        THEN Raise(s1, "NotFound")
        ELSE IF parent_id = None
        THEN IF s1.root_id /= None
             THEN Raise(s1, "InvalidOperation")
             ELSE Ok([s1 EXCEPT !.root_id = node_id])
        ELSE Ok([s1 EXCEPT
                    !.children[parent_id] = Append(@, node_id),
                    !.nodes[parent_id] =
                        [@ EXCEPT !.is_leaf = FALSE, !.updated_at = t]])

create_node(s, node_id, description, parent_id, metadata, t) ==
    IF node_id \in DOMAIN s.nodes
    THEN Raise(s, "InvalidOperation")
    ELSE IF parent_id /= None /\ parent_id \notin DOMAIN s.nodes
    THEN Raise(s, "NotFound")
    ELSE
        LET node == NewNode(node_id, parent_id, description, metadata, t)
            s1 == [s EXCEPT !.nodes = Put(@, node_id, node),
                            !.children = Put(@, node_id, <<>>)]
        IN  IF parent_id = None
            THEN IF s1.root_id /= None
                 THEN Raise(s1, "InvalidOperation")
                 ELSE Ok([s1 EXCEPT !.root_id = node_id])
            ELSE Ok(mark_leaf(
                        [s1 EXCEPT !.children[parent_id] = Append(@, node_id)],
                        parent_id, FALSE, t))

get_node(s, node_id) ==
    IF node_id \notin DOMAIN s.nodes
    THEN Raise(s, "NotFound")
    ELSE Ok(s)

\* Variant of update_node: the fields take the arguments as they come.
update_node_overwrites(s, node_id, description, metadata, t) ==
    IF node_id \notin DOMAIN s.nodes
    THEN Raise(s, "NotFound")
    ELSE
        LET node == s.nodes[node_id]
            updated_node ==
                [node EXCEPT
                    !.updated_at = t,
                    !.description = description,
                    !.metadata = metadata]
        IN  Ok([s EXCEPT !.nodes[node_id] = updated_node])

update_node(s, node_id, description, metadata, t) ==
    IF node_id \notin DOMAIN s.nodes
    THEN Raise(s, "NotFound")
    ELSE
        LET node == s.nodes[node_id]
            updated_node ==
                [node EXCEPT
                    !.updated_at = t,
                    !.description = IF description /= None THEN description ELSE @,
                    !.metadata = IF metadata /= None THEN metadata ELSE @]
        IN  Ok([s EXCEPT !.nodes[node_id] = updated_node])

\* delete_node calls itself on every child; delete_each is its loop
\* `for child_id in list(...)`, which stops at the first exception.
RECURSIVE delete_node(_, _, _), delete_each(_, _, _)
RECURSIVE delete_node_rest(_, _, _, _)
\* delete_node once the node is looked up and found not to be the root:
\* parent_id is node.parent_id as read by that lookup.  A dictionary entry
\* or list element that is not there raises KeyError or ValueError.
delete_node_rest(s, node_id, parent_id, t) ==
    LET r1 == delete_each(s, GetOrEmpty(s.children, node_id), t)
        s1 == r1.store
        p == parent_id
        parent_children == RemoveFirst(s1.children[p], node_id)
        s2 == [s1 EXCEPT !.children[p] = parent_children]
        s3 == IF Len(parent_children) = 0
              THEN mark_leaf(s2, p, TRUE, t)
              ELSE s2
        s4 == IF Truthy(p) THEN s3 ELSE s1
    IN  IF r1.result /= "ok"
        THEN r1
        ELSE IF Truthy(p) /\ p \notin DOMAIN s1.children
        THEN Raise(s1, "KeyError")
        ELSE IF Truthy(p) /\ ~Contains(s1.children[p], node_id)
        THEN Raise(s1, "ValueError")
        ELSE IF Truthy(p) /\ Len(parent_children) = 0 /\ p \notin DOMAIN s1.nodes
        THEN Raise(s2, "KeyError")
        ELSE IF node_id \notin DOMAIN s4.nodes
        THEN Raise(s4, "KeyError")
        ELSE IF node_id \notin DOMAIN s4.children
        THEN Raise([s4 EXCEPT !.nodes = Del(@, node_id)], "KeyError")
        ELSE Ok([s4 EXCEPT !.nodes = Del(@, node_id),
                           !.children = Del(@, node_id)])

delete_node(s, node_id, t) ==
    IF node_id \notin DOMAIN s.nodes
    THEN Raise(s, "NotFound")
    ELSE IF is_root(s, node_id)
    THEN Raise(s, "InvalidOperation")
    ELSE delete_node_rest(s, node_id, s.nodes[node_id].parent_id, t)

\* Variant of delete_each: only the first child is deleted.
delete_each_first_only(s, child_ids, t) ==
    IF child_ids = <<>>
    THEN Ok(s)
    ELSE delete_node(s, Head(child_ids), t)

delete_each(s, child_ids, t) ==
    IF child_ids = <<>>
    THEN Ok(s)
    ELSE
        LET r == delete_node(s, Head(child_ids), t)
        IN  IF r.result /= "ok" THEN r ELSE delete_each(r.store, Tail(child_ids), t)

\* Variant of would_create_cycle: no walk, only new_parent_id itself is
\* compared.
would_create_cycle_self_only(s, node_id, current) == current = node_id

\* Variant of would_create_cycle: the walk starts from node_id and looks for
\* new_parent_id.
RECURSIVE would_create_cycle_from_node(_, _, _)
would_create_cycle_from_node(s, node_id, current) ==
    IF node_id = None
    THEN FALSE
    ELSE IF node_id = current
    THEN TRUE
    ELSE would_create_cycle_from_node(s, s.nodes[node_id].parent_id, current)

\* Walk up from new_parent_id to see whether node_id is reached.
RECURSIVE would_create_cycle(_, _, _)
would_create_cycle(s, node_id, current) ==
    IF current = None
    THEN FALSE
    ELSE IF current = node_id
    THEN TRUE
    ELSE would_create_cycle(s, node_id, s.nodes[current].parent_id)

\* move_node putting the node first among its new siblings
move_node_prepends(s, node_id, new_parent_id, t) ==
    IF node_id \notin DOMAIN s.nodes
    THEN Raise(s, "NotFound")
    ELSE IF is_root(s, node_id)
    THEN Raise(s, "InvalidOperation")
    ELSE IF new_parent_id \notin DOMAIN s.nodes
    THEN Raise(s, "NotFound")
    ELSE IF would_create_cycle(s, node_id, new_parent_id)
    THEN Raise(s, "CircularReference")
    ELSE
        LET node == s.nodes[node_id]
            old_parent_id == node.parent_id
            old_parent_children == RemoveFirst(s.children[old_parent_id], node_id)
            s1 == [s EXCEPT !.children[old_parent_id] = old_parent_children]
            s2 == IF Len(old_parent_children) = 0
                  THEN mark_leaf(s1, old_parent_id, TRUE, t)
                  ELSE s1
            s3 == IF Truthy(old_parent_id) THEN s2 ELSE s
            s4 == mark_leaf(
                      [s3 EXCEPT !.children[new_parent_id] = <<node_id>> \o @],
                      new_parent_id, FALSE, t)
            updated_node == [node EXCEPT !.parent_id = new_parent_id,
                                         !.updated_at = t]
        IN  IF Truthy(old_parent_id) /\ ~Contains(s.children[old_parent_id], node_id)
            THEN Raise(s, "ValueError")
            ELSE Ok([s4 EXCEPT !.nodes[node_id] = updated_node])

\* move_node looking the new parent up before it tests for the root
move_node_parent_first(s, node_id, new_parent_id, t) ==
    IF node_id \notin DOMAIN s.nodes
    THEN Raise(s, "NotFound")
    ELSE IF new_parent_id \notin DOMAIN s.nodes
    THEN Raise(s, "NotFound")
    ELSE IF is_root(s, node_id)
    THEN Raise(s, "InvalidOperation")
    ELSE IF would_create_cycle(s, node_id, new_parent_id)
    THEN Raise(s, "CircularReference")
    ELSE
        LET node == s.nodes[node_id]
            old_parent_id == node.parent_id
            old_parent_children == RemoveFirst(s.children[old_parent_id], node_id)
            s1 == [s EXCEPT !.children[old_parent_id] = old_parent_children]
            s2 == IF Len(old_parent_children) = 0
                  THEN mark_leaf(s1, old_parent_id, TRUE, t)
                  ELSE s1
            s3 == IF Truthy(old_parent_id) THEN s2 ELSE s
            s4 == mark_leaf(
                      [s3 EXCEPT !.children[new_parent_id] = Append(@, node_id)],
                      new_parent_id, FALSE, t)
            updated_node == [node EXCEPT !.parent_id = new_parent_id,
                                         !.updated_at = t]
        IN  IF Truthy(old_parent_id) /\ ~Contains(s.children[old_parent_id], node_id)
            THEN Raise(s, "ValueError")
            ELSE Ok([s4 EXCEPT !.nodes[node_id] = updated_node])

\* move_node doing nothing when the node is already under the new parent
move_node_skips_own_parent(s, node_id, new_parent_id, t) ==
    IF node_id \notin DOMAIN s.nodes
    THEN Raise(s, "NotFound")
    ELSE IF is_root(s, node_id)
    THEN Raise(s, "InvalidOperation")
    ELSE IF new_parent_id \notin DOMAIN s.nodes
    THEN Raise(s, "NotFound")
    ELSE IF would_create_cycle(s, node_id, new_parent_id)
    THEN Raise(s, "CircularReference")
    ELSE IF s.nodes[node_id].parent_id = new_parent_id
    THEN Ok(s)
    ELSE
        LET node == s.nodes[node_id]
            old_parent_id == node.parent_id
            old_parent_children == RemoveFirst(s.children[old_parent_id], node_id)
            s1 == [s EXCEPT !.children[old_parent_id] = old_parent_children]
            s2 == IF Len(old_parent_children) = 0
                  THEN mark_leaf(s1, old_parent_id, TRUE, t)
                  ELSE s1
            s3 == IF Truthy(old_parent_id) THEN s2 ELSE s
            s4 == mark_leaf(
                      [s3 EXCEPT !.children[new_parent_id] = Append(@, node_id)],
                      new_parent_id, FALSE, t)
            updated_node == [node EXCEPT !.parent_id = new_parent_id,
                                         !.updated_at = t]
        IN  IF Truthy(old_parent_id) /\ ~Contains(s.children[old_parent_id], node_id)
            THEN Raise(s, "ValueError")
            ELSE Ok([s4 EXCEPT !.nodes[node_id] = updated_node])

move_node(s, node_id, new_parent_id, t) ==
    IF node_id \notin DOMAIN s.nodes
    THEN Raise(s, "NotFound")
    ELSE IF is_root(s, node_id)
    THEN Raise(s, "InvalidOperation")
    ELSE IF new_parent_id \notin DOMAIN s.nodes
    THEN Raise(s, "NotFound")
    ELSE IF would_create_cycle(s, node_id, new_parent_id)
    THEN Raise(s, "CircularReference")
    ELSE
        LET node == s.nodes[node_id]
            old_parent_id == node.parent_id
            old_parent_children == RemoveFirst(s.children[old_parent_id], node_id)
            s1 == [s EXCEPT !.children[old_parent_id] = old_parent_children]
            s2 == IF Len(old_parent_children) = 0
                  THEN mark_leaf(s1, old_parent_id, TRUE, t)
                  ELSE s1
            s3 == IF Truthy(old_parent_id) THEN s2 ELSE s
            s4 == mark_leaf(
                      [s3 EXCEPT !.children[new_parent_id] = Append(@, node_id)],
                      new_parent_id, FALSE, t)
            updated_node == [node EXCEPT !.parent_id = new_parent_id,
                                         !.updated_at = t]
        IN  IF Truthy(old_parent_id) /\ ~Contains(s.children[old_parent_id], node_id)
            THEN Raise(s, "ValueError")
            ELSE Ok([s4 EXCEPT !.nodes[node_id] = updated_node])

get_root(s) == IF s.root_id = None THEN None ELSE s.nodes[s.root_id].id

node_count(s) == Cardinality(DOMAIN s.nodes)

\* ids of get_children(node_id), for a stored node_id
get_children(s, node_id) == GetOrEmpty(s.children, node_id)

\* --------------------------------------------------------- ZipperService
\* Variant of create_each: a failed create is remembered and the loop goes on.
RECURSIVE create_each_goes_on(_, _, _, _)
create_each_goes_on(s, node_id, children_data, t) ==
    IF children_data = <<>>
    THEN Ok(s)
    ELSE
        LET c == Head(children_data)
            r == create_node(s, c.id, c.description, node_id, c.metadata, t)
            rest == create_each_goes_on(r.store, node_id, Tail(children_data), t)
        IN  IF r.result /= "ok"
            THEN Raise(rest.store, r.result)
            ELSE rest

\* Variant of create_each: the entries are taken last to first.
RECURSIVE create_each_last_first(_, _, _, _)
create_each_last_first(s, node_id, children_data, t) ==
    IF children_data = <<>>
    THEN Ok(s)
    ELSE
        LET c == children_data[Len(children_data)]
            r == create_node(s, c.id, c.description, node_id, c.metadata, t)
        IN  IF r.result /= "ok"
            THEN r
            ELSE create_each_last_first(r.store, node_id,
                     SubSeq(children_data, 1, Len(children_data) - 1), t)

\* The loop of expand: one create_node per entry, stopping at the first
\* exception.
RECURSIVE create_each(_, _, _, _)
create_each(s, node_id, children_data, t) ==
    IF children_data = <<>>
    THEN Ok(s)
    ELSE
        LET c == Head(children_data)
            r == create_node(s, c.id, c.description, node_id, c.metadata, t)
        IN  IF r.result /= "ok"
            THEN r
            ELSE create_each(r.store, node_id, Tail(children_data), t)

\* Variant of expand: the node is flagged a branch once the loop is done.
expand_marks_branch(s, node_id, children_data, t) ==
    IF node_id \notin DOMAIN s.nodes
    THEN Raise(s, "NotFound")
    ELSE IF ~s.nodes[node_id].is_leaf
    THEN Raise(s, "InvalidOperation")
    ELSE
        LET r == create_each(s, node_id, children_data, t)
        IN  IF r.result /= "ok"
            THEN r
            ELSE Ok(mark_leaf(r.store, node_id, FALSE, t))

expand(s, node_id, children_data, t) ==
    IF node_id \notin DOMAIN s.nodes
    THEN Raise(s, "NotFound")
    ELSE IF ~s.nodes[node_id].is_leaf
    THEN Raise(s, "InvalidOperation")
    ELSE create_each(s, node_id, children_data, t)

\* Variant of collapse: the summary is dropped.
collapse_keeps_text(s, node_id, summary, t) ==
    IF node_id \notin DOMAIN s.nodes
    THEN Raise(s, "NotFound")
    ELSE IF s.nodes[node_id].is_leaf
    THEN Raise(s, "InvalidOperation")
    ELSE
        LET r == delete_each(s, get_children(s, node_id), t)
        IN  IF r.result /= "ok"
            THEN r
            ELSE get_node(r.store, node_id)

collapse(s, node_id, summary, t) ==
    IF node_id \notin DOMAIN s.nodes
    THEN Raise(s, "NotFound")
    ELSE IF s.nodes[node_id].is_leaf
    THEN Raise(s, "InvalidOperation")
    ELSE
        LET r == delete_each(s, get_children(s, node_id), t)
        IN  IF r.result /= "ok"
            THEN r
            ELSE IF summary /= None
            THEN update_node(r.store, node_id, summary, None, t)
            ELSE get_node(r.store, node_id)

\* ------------------------------------------------------------ read calls
\* Outcome of a call that only reads: the node it returns (by id), None, or
\* the list of nodes it returns (by id); or the exception raised.
Found(v) == [result |-> "ok", value |-> v]
Failed(e) == [result |-> e, value |-> None]

\* [self._nodes[i] for i in ids], each node named by its id field
NodesOf(s, ids) == [i \in 1..Len(ids) |-> s.nodes[ids[i]].id]

\* TreeService.get_children as a call: get_node first, then the list.
get_children_call(s, node_id) ==
    IF get_node(s, node_id).result /= "ok"
    THEN Failed(get_node(s, node_id).result)
    ELSE Found(NodesOf(s, get_children(s, node_id)))

get_siblings(s, node_id) ==
    IF get_node(s, node_id).result /= "ok"
    THEN Failed(get_node(s, node_id).result)
    ELSE IF s.nodes[node_id].parent_id = None
    THEN Found(<<s.nodes[node_id].id>>)
    ELSE get_children_call(s, s.nodes[node_id].parent_id)

get_parent(s, node_id) ==
    IF get_node(s, node_id).result /= "ok"
    THEN Failed(get_node(s, node_id).result)
    ELSE IF s.nodes[node_id].parent_id = None
    THEN Found(None)
    ELSE Found(s.nodes[s.nodes[node_id].parent_id].id)

\* ZipperService navigation
up(s, node_id) == get_parent(s, node_id)

down(s, node_id) ==
    LET kids == get_children_call(s, node_id)
    IN  IF kids.result /= "ok"
        THEN kids
        ELSE IF kids.value = <<>>
        THEN Found(None)
        ELSE Found(kids.value[1])

left(s, node_id) ==
    IF get_node(s, node_id).result /= "ok"
    THEN Failed(get_node(s, node_id).result)
    ELSE IF s.nodes[node_id].parent_id = None
    THEN Found(None)
    ELSE
        LET siblings == get_siblings(s, node_id)
        IN  IF siblings.result /= "ok"
            THEN siblings
            ELSE IF ~Contains(siblings.value, node_id)
            THEN Found(None)
            ELSE
                LET current_index == IndexOf(siblings.value, node_id)
                IN  IF current_index = 1
                    THEN Found(None)
                    ELSE Found(siblings.value[current_index - 1])

\* Variant of right: the last sibling instead of the next one.
right_to_last(s, node_id) ==
    IF get_node(s, node_id).result /= "ok"
    THEN Failed(get_node(s, node_id).result)
    ELSE IF s.nodes[node_id].parent_id = None
    THEN Found(None)
    ELSE
        LET siblings == get_siblings(s, node_id)
        IN  IF siblings.result /= "ok"
            THEN siblings
            ELSE IF ~Contains(siblings.value, node_id)
            THEN Found(None)
            ELSE
                LET current_index == IndexOf(siblings.value, node_id)
                IN  IF current_index = Len(siblings.value)
                    THEN Found(None)
                    ELSE Found(siblings.value[Len(siblings.value)])

right(s, node_id) ==
    IF get_node(s, node_id).result /= "ok"
    THEN Failed(get_node(s, node_id).result)
    ELSE IF s.nodes[node_id].parent_id = None
    THEN Found(None)
    ELSE
        LET siblings == get_siblings(s, node_id)
        IN  IF siblings.result /= "ok"
            THEN siblings
            ELSE IF ~Contains(siblings.value, node_id)
            THEN Found(None)
            ELSE
                LET current_index == IndexOf(siblings.value, node_id)
                IN  IF current_index = Len(siblings.value)
                    THEN Found(None)
                    ELSE Found(siblings.value[current_index + 1])

\* ------------------------------------------------------ TraversalService
\* "try right": the entry after node_id in get_siblings(node_id), None when
\* node_id is the last entry (or is not in the list)
sibling_after(s, node_id) ==
    LET siblings == get_siblings(s, node_id).value
    IN  IF ~Contains(siblings, node_id)
        THEN None
        ELSE LET current_index == IndexOf(siblings, node_id)
             IN  IF current_index < Len(siblings)
                 THEN siblings[current_index + 1]
                 ELSE None

\* "go up and try right": the while loop of compute_next_dfs
RECURSIVE climb(_, _)
climb(s, current) ==
    IF s.nodes[current].parent_id = None
    THEN Found(None)
    ELSE
        LET parent == get_parent(s, current).value
        IN  IF parent = None
            THEN Found(None)
            ELSE IF sibling_after(s, parent) /= None
            THEN Found(sibling_after(s, parent))
            ELSE climb(s, parent)

compute_next_dfs(s, node_id) ==
    IF get_node(s, node_id).result /= "ok"
    THEN Failed(get_node(s, node_id).result)
    ELSE
        LET kids == get_children_call(s, node_id).value
        IN  IF kids /= <<>>
            THEN Found(kids[1])
            ELSE IF /\ s.nodes[node_id].parent_id /= None
                    /\ sibling_after(s, node_id) /= None
            THEN Found(sibling_after(s, node_id))
            ELSE climb(s, node_id)

RECURSIVE rightmost_descendant(_, _)
rightmost_descendant(s, current) ==
    IF s.nodes[current].is_leaf
    THEN Found(s.nodes[current].id)
    ELSE
        LET kids == get_children_call(s, current).value
        IN  IF kids = <<>>
            THEN Found(s.nodes[current].id)
            ELSE rightmost_descendant(s, kids[Len(kids)])

compute_prev_dfs(s, node_id) ==
    IF get_node(s, node_id).result /= "ok"
    THEN Failed(get_node(s, node_id).result)
    ELSE IF s.nodes[node_id].parent_id = None
    THEN Found(None)
    ELSE
        LET siblings == get_siblings(s, node_id).value
        IN  IF ~Contains(siblings, node_id)
            THEN Found(None)
            ELSE
                LET current_index == IndexOf(siblings, node_id)
                IN  IF current_index > 1
                    THEN rightmost_descendant(s, siblings[current_index - 1])
                    ELSE get_parent(s, node_id)

\* Variant of bfs_scan: the children go to the front of the queue.
RECURSIVE bfs_scan_depth_first(_, _, _, _)
bfs_scan_depth_first(s, queue, found_current, node_id) ==
    IF queue = <<>>
    THEN Found(None)
    ELSE
        LET current == Head(queue)
        IN  IF found_current
            THEN Found(current)
            ELSE bfs_scan_depth_first(s,
                     get_children_call(s, current).value \o Tail(queue),
                     found_current \/ current = node_id, node_id)

\* the while loop of compute_next_bfs over its queue
RECURSIVE bfs_scan(_, _, _, _)
bfs_scan(s, queue, found_current, node_id) ==
    IF queue = <<>>
    THEN Found(None)
    ELSE
        LET current == Head(queue)
        IN  IF found_current
            THEN Found(current)
            ELSE bfs_scan(s,
                     Tail(queue) \o get_children_call(s, current).value,
                     found_current \/ current = node_id, node_id)

compute_next_bfs(s, node_id) ==
    IF get_root(s) = None
    THEN Found(None)
    ELSE bfs_scan(s, <<get_root(s)>>, FALSE, node_id)

\* The nodes traverse_dfs yields, and the exception that ends it if any.
RECURSIVE traverse_dfs(_, _)
traverse_dfs(s, current_id) ==
    IF current_id = None
    THEN Found(<<>>)
    ELSE IF get_node(s, current_id).result /= "ok"
    THEN [result |-> get_node(s, current_id).result, value |-> <<>>]
    ELSE
        LET next_node == compute_next_dfs(s, current_id)
            rest == traverse_dfs(s, next_node.value)
        IN  [result |-> rest.result,
             value |-> <<s.nodes[current_id].id>> \o rest.value]

\* Variant of bfs_walk: the children are put on the queue twice.
RECURSIVE bfs_walk_requeues(_, _)
bfs_walk_requeues(s, queue) ==
    IF queue = <<>>
    THEN <<>>
    ELSE <<Head(queue)>> \o
         bfs_walk_requeues(s, Tail(queue)
                                  \o get_children_call(s, Head(queue)).value
                                  \o get_children_call(s, Head(queue)).value)

\* Variant of bfs_walk: the children go to the front of the queue.
RECURSIVE bfs_walk_depth_first(_, _)
bfs_walk_depth_first(s, queue) ==
    IF queue = <<>>
    THEN <<>>
    ELSE <<Head(queue)>> \o
         bfs_walk_depth_first(s, get_children_call(s, Head(queue)).value \o Tail(queue))

\* Variant of bfs_walk: the children are not added to the queue.
RECURSIVE bfs_walk_no_extend(_, _)
bfs_walk_no_extend(s, queue) ==
    IF queue = <<>>
    THEN <<>>
    ELSE <<Head(queue)>> \o bfs_walk_no_extend(s, Tail(queue))

\* the while loop of traverse_bfs over its queue: the nodes it yields
RECURSIVE bfs_walk(_, _)
bfs_walk(s, queue) ==
    IF queue = <<>>
    THEN <<>>
    ELSE <<Head(queue)>> \o
         bfs_walk(s, Tail(queue) \o get_children_call(s, Head(queue)).value)

\* The nodes traverse_bfs yields, and the exception that ends it if any.
traverse_bfs(s, start_node_id) ==
    IF get_node(s, start_node_id).result /= "ok"
    THEN [result |-> get_node(s, start_node_id).result, value |-> <<>>]
    ELSE Found(bfs_walk(s, <<s.nodes[start_node_id].id>>))

\* ------------------------------------------------ ContextBuilder, LinkBuilder
\* the while loop of _compute_breadcrumbs: each parent met on the way up is
\* put in front of the trail
RECURSIVE compute_breadcrumbs(_, _, _)
compute_breadcrumbs(s, current_id, breadcrumbs) ==
    IF current_id = None
    THEN Found(breadcrumbs)
    ELSE IF get_node(s, current_id).result /= "ok"
    THEN [result |-> get_node(s, current_id).result, value |-> <<>>]
    ELSE
        LET parent == s.nodes[current_id]
        IN  compute_breadcrumbs(s, parent.parent_id,
                <<[id |-> parent.id, description |-> parent.description]>>
                    \o breadcrumbs)

\* the value of a call that returned no Context
NoContext ==
    [depth |-> 0, sibling_position |-> 0, total_siblings |-> 0,
     has_children |-> FALSE, children_count |-> 0, breadcrumbs |-> <<>>]

build_context(s, node_id) ==
    IF get_node(s, node_id).result /= "ok"
    THEN [result |-> get_node(s, node_id).result, value |-> NoContext]
    ELSE
        LET node == s.nodes[node_id]
            breadcrumbs == compute_breadcrumbs(s, node.parent_id, <<>>)
            siblings == get_siblings(s, node_id)
            kids == get_children_call(s, node_id)
        IN  IF breadcrumbs.result /= "ok"
            THEN [result |-> breadcrumbs.result, value |-> NoContext]
            ELSE IF siblings.result /= "ok"
            THEN [result |-> siblings.result, value |-> NoContext]
            ELSE IF ~Contains(siblings.value, node_id)
            THEN [result |-> "StopIteration", value |-> NoContext]
            ELSE Found([depth |-> Len(breadcrumbs.value),
                        sibling_position |-> IndexOf(siblings.value, node_id) - 1,
                        total_siblings |-> Len(siblings.value),
                        has_children |-> ~node.is_leaf,
                        children_count |-> Len(kids.value),
                        breadcrumbs |-> breadcrumbs.value])

\* Variant of LinkTo: href and title take each other's value.
LinkTo_swapped(s, v) ==
    [href |-> [id |-> s.nodes[v].description, suffix |-> ""],
     title |-> [prefix |-> "", text |-> s.nodes[v].id]]

\* Link(href=<id of node v>, title=<description of v>)
LinkTo(s, v) ==
    [href |-> [id |-> s.nodes[v].id, suffix |-> ""],
     title |-> [prefix |-> "", text |-> s.nodes[v].description]]

\* the value of a call that returned no links
NoLinks == [rel \in {} |-> None]

build_links(s, node_id) ==
    IF get_node(s, node_id).result /= "ok"
    THEN [result |-> get_node(s, node_id).result, value |-> NoLinks]
    ELSE
        LET node == s.nodes[node_id]
            root == get_root(s)
            calls == [up |-> up(s, node_id),
                      down |-> down(s, node_id),
                      left |-> left(s, node_id),
                      right |-> right(s, node_id),
                      next_dfs |-> compute_next_dfs(s, node_id),
                      prev_dfs |-> compute_prev_dfs(s, node_id),
                      next_bfs |-> compute_next_bfs(s, node_id)]
            order == <<"up", "down", "left", "right",
                       "next_dfs", "prev_dfs", "next_bfs">>
            raised == {i \in 1..Len(order) : calls[order[i]].result /= "ok"}
            rels == {"self"}
                    \cup (IF root /= None THEN {"root"} ELSE {})
                    \cup (IF calls.up.value /= None THEN {"up"} ELSE {})
                    \cup (IF calls.down.value /= None THEN {"down"} ELSE {})
                    \cup (IF calls.left.value /= None THEN {"left"} ELSE {})
                    \cup (IF calls.right.value /= None THEN {"right"} ELSE {})
                    \cup (IF calls.next_dfs.value /= None THEN {"next-dfs"} ELSE {})
                    \cup (IF calls.prev_dfs.value /= None THEN {"prev-dfs"} ELSE {})
                    \cup (IF calls.next_bfs.value /= None THEN {"next-bfs"} ELSE {})
                    \cup (IF ~node.is_leaf THEN {"children"} ELSE {})
            link(rel) ==
                CASE rel = "self" ->
                        [href |-> [id |-> node_id, suffix |-> ""],
                         title |-> [prefix |-> "", text |-> node.description]]
                  [] rel = "root" -> LinkTo(s, root)
                  [] rel = "up" -> LinkTo(s, calls.up.value)
                  [] rel = "down" -> LinkTo(s, calls.down.value)
                  [] rel = "left" -> LinkTo(s, calls.left.value)
                  [] rel = "right" -> LinkTo(s, calls.right.value)
                  [] rel = "next-dfs" -> LinkTo(s, calls.next_dfs.value)
                  [] rel = "prev-dfs" -> LinkTo(s, calls.prev_dfs.value)
                  [] rel = "next-bfs" -> LinkTo(s, calls.next_bfs.value)
                  [] rel = "children" ->
                        [href |-> [id |-> node_id, suffix |-> "/children"],
                         title |-> [prefix |-> "Children of ",
                                    text |-> node.description]]
        IN  IF raised /= {}
            THEN [result |-> calls[order[CHOOSE i \in raised :
                                            \A j \in raised : i <= j]].result,
                  value |-> NoLinks]
            ELSE Found([rel \in rels |-> link(rel)])

\* ------------------------------------------------------------ operations
\* The argument lists expand is called with: up to MaxExpand children.
ChildData(D, M) == [id : NodeIds, description : D, metadata : M]

ChildrenData(D, M) ==
    UNION {[1..n -> ChildData(D, M)] : n \in 0..MaxExpand}

\* ---------------------------------------------------------- HTTP layer
\* The worker threads that run the endpoints of api/nodes.py.  The endpoints
\* are plain functions, so each request runs on a worker thread of its own
\* and all of them use the one TreeService of dependencies.py.
MaxThreads == 2
Threads == 1..MaxThreads

\* the id "root" that the endpoint get_root creates the root under
RootName == 1

\* the ids the requests name
MaxRequestIds == 3
RequestIds == 1..MaxRequestIds

\* a worker thread that serves no request
Idle == [op |-> "none", pc |-> "idle", node_id |-> None, parent_id |-> None]

\* No call is under observation: the caller is between two calls.
NoCall ==
    [op |-> "none", node_id |-> None, arg |-> None, arg2 |-> None,
     kids |-> <<>>, result |-> "ok", value |-> None, seq |-> <<>>,
     ctx |-> NoContext, links |-> NoLinks]

Init ==
    /\ nodes = <<>>
    /\ children = <<>>
    /\ root_id = None
    /\ now = 0
    /\ prev = EmptyStore
    /\ last = NoCall
    /\ requests = [t \in Threads |-> Idle]

\* A call made by a caller that is between two calls: commit its outcome and
\* remember the call and the store it started from.
Commit(out, call) ==
    /\ nodes' = out.store.nodes
    /\ children' = out.store.children
    /\ root_id' = out.store.root_id
    /\ prev' = Store
    /\ last' = [call EXCEPT !.result = out.result]
    /\ UNCHANGED <<now, requests>>

DoCreateNode(D, M) ==
    /\ last = NoCall
    /\ \E node_id \in NodeIds, parent_id \in NodeIds \cup {None}, d \in D, m \in M :
            Commit(create_node(Store, node_id, d, parent_id, m, now),
                   [NoCall EXCEPT !.op = "create_node", !.node_id = node_id,
                                  !.arg = parent_id])

DoUpdateNode(D, M) ==
    /\ last = NoCall
    /\ \E node_id \in NodeIds, d \in D \cup {None}, m \in M \cup {None} :
            Commit(update_node(Store, node_id, d, m, now),
                   [NoCall EXCEPT !.op = "update_node", !.node_id = node_id,
                                  !.arg = d, !.arg2 = m])

DoDeleteNode ==
    /\ last = NoCall
    /\ \E node_id \in NodeIds :
            Commit(delete_node(Store, node_id, now),
                   [NoCall EXCEPT !.op = "delete_node", !.node_id = node_id])

DoMoveNode ==
    /\ last = NoCall
    /\ \E node_id \in NodeIds, new_parent_id \in NodeIds :
            Commit(move_node(Store, node_id, new_parent_id, now),
                   [NoCall EXCEPT !.op = "move_node", !.node_id = node_id,
                                  !.arg = new_parent_id])

DoExpand(D, M) ==
    /\ last = NoCall
    /\ \E node_id \in NodeIds, children_data \in ChildrenData(D, M) :
            Commit(expand(Store, node_id, children_data, now),
                   [NoCall EXCEPT !.op = "expand", !.node_id = node_id,
                                  !.kids = children_data])

DoCollapse(D) ==
    /\ last = NoCall
    /\ \E node_id \in NodeIds, summary \in D \cup {None} :
            Commit(collapse(Store, node_id, summary, now),
                   [NoCall EXCEPT !.op = "collapse", !.node_id = node_id,
                                  !.arg = summary])

\* A call that only reads, made by a caller that is between two calls:
\* the store stays, the node (or None) it returned is remembered.
Observe(out, call) ==
    /\ prev' = Store
    /\ last' = [call EXCEPT !.result = out.result, !.value = out.value]
    /\ UNCHANGED <<nodes, children, root_id, now, requests>>

DoUp ==
    /\ last = NoCall
    /\ \E node_id \in NodeIds :
            Observe(up(Store, node_id),
                    [NoCall EXCEPT !.op = "up", !.node_id = node_id])

DoDown ==
    /\ last = NoCall
    /\ \E node_id \in NodeIds :
            Observe(down(Store, node_id),
                    [NoCall EXCEPT !.op = "down", !.node_id = node_id])

DoLeft ==
    /\ last = NoCall
    /\ \E node_id \in NodeIds :
            Observe(left(Store, node_id),
                    [NoCall EXCEPT !.op = "left", !.node_id = node_id])

DoRight ==
    /\ last = NoCall
    /\ \E node_id \in NodeIds :
            Observe(right(Store, node_id),
                    [NoCall EXCEPT !.op = "right", !.node_id = node_id])

\* A call that yields a list of nodes: the store stays, the list is remembered.
ObserveList(out, call) ==
    /\ prev' = Store
    /\ last' = [call EXCEPT !.result = out.result, !.seq = out.value]
    /\ UNCHANGED <<nodes, children, root_id, now, requests>>

DoComputeNextDfs ==
    /\ last = NoCall
    /\ \E node_id \in NodeIds :
            Observe(compute_next_dfs(Store, node_id),
                    [NoCall EXCEPT !.op = "compute_next_dfs", !.node_id = node_id])

DoComputePrevDfs ==
    /\ last = NoCall
    /\ \E node_id \in NodeIds :
            Observe(compute_prev_dfs(Store, node_id),
                    [NoCall EXCEPT !.op = "compute_prev_dfs", !.node_id = node_id])

DoComputeNextBfs ==
    /\ last = NoCall
    /\ \E node_id \in NodeIds :
            Observe(compute_next_bfs(Store, node_id),
                    [NoCall EXCEPT !.op = "compute_next_bfs", !.node_id = node_id])

DoTraverseDfs ==
    /\ last = NoCall
    /\ \E start_node_id \in NodeIds :
            ObserveList(traverse_dfs(Store, start_node_id),
                        [NoCall EXCEPT !.op = "traverse_dfs",
                                       !.node_id = start_node_id])

DoTraverseBfs ==
    /\ last = NoCall
    /\ \E start_node_id \in NodeIds :
            ObserveList(traverse_bfs(Store, start_node_id),
                        [NoCall EXCEPT !.op = "traverse_bfs",
                                       !.node_id = start_node_id])

\* A call that returns a Context: the store stays, the Context is remembered.
ObserveContext(out, call) ==
    /\ prev' = Store
    /\ last' = [call EXCEPT !.result = out.result, !.ctx = out.value]
    /\ UNCHANGED <<nodes, children, root_id, now, requests>>

DoBuildContext ==
    /\ last = NoCall
    /\ \E node_id \in NodeIds :
            ObserveContext(build_context(Store, node_id),
                           [NoCall EXCEPT !.op = "build_context",
                                          !.node_id = node_id])

\* A call that returns links: the store stays, the links are remembered.
ObserveLinks(out, call) ==
    /\ prev' = Store
    /\ last' = [call EXCEPT !.result = out.result, !.links = out.value]
    /\ UNCHANGED <<nodes, children, root_id, now, requests>>

DoBuildLinks ==
    /\ last = NoCall
    /\ \E node_id \in NodeIds :
            ObserveLinks(build_links(Store, node_id),
                         [NoCall EXCEPT !.op = "build_links",
                                        !.node_id = node_id])

\* A call that returns a list of nodes, or raises and returns none.
ListOrNone(out) ==
    [result |-> out.result,
     value |-> IF out.result = "ok" THEN out.value ELSE <<>>]

DoGetNode ==
    /\ last = NoCall
    /\ \E node_id \in NodeIds :
            Commit(get_node(Store, node_id),
                   [NoCall EXCEPT !.op = "get_node", !.node_id = node_id])

DoGetChildren ==
    /\ last = NoCall
    /\ \E node_id \in NodeIds :
            ObserveList(ListOrNone(get_children_call(Store, node_id)),
                        [NoCall EXCEPT !.op = "get_children",
                                       !.node_id = node_id])

DoGetSiblings ==
    /\ last = NoCall
    /\ \E node_id \in NodeIds :
            ObserveList(ListOrNone(get_siblings(Store, node_id)),
                        [NoCall EXCEPT !.op = "get_siblings",
                                       !.node_id = node_id])

DoGetParent ==
    /\ last = NoCall
    /\ \E node_id \in NodeIds :
            Observe(get_parent(Store, node_id),
                    [NoCall EXCEPT !.op = "get_parent", !.node_id = node_id])

\* The call returns (its value or its exception) to the caller, which drops
\* the record of it; the store stays as the call left it.
Return ==
    /\ last /= NoCall
    /\ last' = NoCall
    /\ prev' = EmptyStore
    /\ UNCHANGED <<nodes, children, root_id, now, requests>>

\* datetime.now() moves on between calls.
Tick ==
    /\ last = NoCall
    /\ now < MaxClock
    /\ now' = now + 1
    /\ UNCHANGED <<nodes, children, root_id, prev, last, requests>>

Next ==
    \/ DoCreateNode(OneDescription, OneMetadata)
    \/ DoUpdateNode(OneDescription, OneMetadata)
    \/ DoDeleteNode
    \/ DoMoveNode
    \/ DoExpand(OneDescription, OneMetadata)
    \/ DoCollapse(OneDescription)
    \/ DoUp
    \/ DoDown
    \/ DoLeft
    \/ DoRight
    \/ DoComputeNextDfs
    \/ DoComputePrevDfs
    \/ DoComputeNextBfs
    \/ DoTraverseDfs
    \/ DoTraverseBfs
    \/ DoBuildContext
    \/ DoBuildLinks
    \/ DoGetNode
    \/ DoGetChildren
    \/ DoGetSiblings
    \/ DoGetParent
    \/ Return

\* The structure of the tree: every call, one description, a clock that
\* does not advance between calls.
Spec == Init /\ [][Next]_vars

\* The same calls with a clock that advances.
SpecClock == Init /\ [][Next \/ Tick]_vars

\* The calls that write the store, with a clock that advances between calls.
NextTime ==
    \/ DoCreateNode(OneDescription, OneMetadata)
    \/ DoUpdateNode(OneDescription, OneMetadata)
    \/ DoDeleteNode
    \/ DoMoveNode
    \/ DoExpand(OneDescription, OneMetadata)
    \/ DoCollapse(OneDescription)
    \/ Return
    \/ Tick

SpecTime == Init /\ [][NextTime]_vars

\* ------------------------------------------- HTTP layer: worker threads
\* The endpoints take no lock, so a thread may be preempted between any two
\* statements of TreeService.  The steps below are the places where
\* create_node reads or writes the dictionaries, and the lookup and the rest
\* of delete_node.

\* create_node, lines 51-63: the node is built and stored
create_node_insert(s, node_id, description, parent_id, metadata, t) ==
    [s EXCEPT !.nodes = Put(@, node_id,
                            NewNode(node_id, parent_id, description, metadata, t)),
              !.children = Put(@, node_id, <<>>)]

\* create_node, lines 65-75: the root is set or the node is attached to its
\* parent; a parent that is gone raises KeyError
create_node_attach(s, node_id, parent_id, t) ==
    IF parent_id = None
    THEN IF s.root_id /= None
         THEN Raise(s, "InvalidOperation")
         ELSE Ok([s EXCEPT !.root_id = node_id])
    ELSE IF parent_id \notin DOMAIN s.children
    THEN Raise(s, "KeyError")
    ELSE
        LET s1 == [s EXCEPT !.children[parent_id] = Append(@, node_id)]
        IN  IF parent_id \notin DOMAIN s1.nodes
            THEN Raise(s1, "KeyError")
            ELSE Ok(mark_leaf(s1, parent_id, FALSE, t))

\* the number of entries of all children lists
RECURSIVE Entries(_, _)
Entries(s, ids) ==
    IF ids = {}
    THEN 0
    ELSE LET n == CHOOSE n \in ids : TRUE
         IN  Len(s.children[n]) + Entries(s, ids \ {n})

\* the ids the children lists lead to from the ids given, in one step or more
RECURSIVE Below(_, _, _)
Below(s, ids, fuel) ==
    LET next == UNION {{s.children[n][i] : i \in 1..Len(s.children[n])} :
                          n \in ids \cap DOMAIN s.children}
    IN  IF fuel = 0 THEN {} ELSE next \cup Below(s, next, fuel - 1)

\* the children lists lead from node_id back to a node already met: the
\* recursion of delete_node(node_id) does not end
Loops(s, node_id) ==
    \E n \in {node_id} \cup Below(s, {node_id}, MaxNodes) :
        n \in Below(s, {n}, MaxNodes)

\* A thread's step writes the store and moves the thread on.
Step(t, s, request) ==
    /\ nodes' = s.nodes
    /\ children' = s.children
    /\ root_id' = s.root_id
    /\ requests' = [requests EXCEPT ![t] = request]
    /\ UNCHANGED <<now, prev, last>>

\* GET /nodes/root arrives
ReceiveGetRoot ==
    \E t \in Threads :
        /\ requests[t] = Idle
        /\ Step(t, Store, [Idle EXCEPT !.op = "get_root", !.pc = "read_root"])

\* POST /nodes/{parent_id}/children arrives
ReceiveCreateChild ==
    \E t \in Threads, parent_id \in RequestIds, node_id \in RequestIds :
        /\ requests[t] = Idle
        /\ Entries(Store, DOMAIN children) < MaxRequestIds
        /\ Step(t, Store, [op |-> "create_child", pc |-> "check_id",
                           node_id |-> node_id, parent_id |-> parent_id])

\* DELETE /nodes/{node_id} arrives
ReceiveDeleteNode ==
    \E t \in Threads, node_id \in RequestIds :
        /\ requests[t] = Idle
        /\ Step(t, Store, [op |-> "delete_node", pc |-> "lookup",
                           node_id |-> node_id, parent_id |-> None])

\* get_root: root = tree.get_root(); the root is created when there is none
GetRootRead ==
    \E t \in Threads :
        /\ requests[t].pc = "read_root"
        /\ IF root_id = None
           THEN Step(t, Store, [requests[t] EXCEPT !.pc = "check_id",
                                                   !.node_id = RootName])
           ELSE Step(t, Store, Idle)

\* create_node, lines 45-46
CreateCheckId ==
    \E t \in Threads :
        /\ requests[t].pc = "check_id"
        /\ IF requests[t].node_id \in DOMAIN nodes
           THEN Step(t, Store, Idle)
           ELSE Step(t, Store, [requests[t] EXCEPT !.pc = "check_parent"])

\* create_node, lines 48-49
CreateCheckParent ==
    \E t \in Threads :
        /\ requests[t].pc = "check_parent"
        /\ IF /\ requests[t].parent_id /= None
              /\ requests[t].parent_id \notin DOMAIN nodes
           THEN Step(t, Store, Idle)
           ELSE Step(t, Store, [requests[t] EXCEPT !.pc = "insert"])

\* create_node, lines 51-63
CreateInsert ==
    \E t \in Threads :
        /\ requests[t].pc = "insert"
        /\ Step(t, create_node_insert(Store, requests[t].node_id, 1,
                                      requests[t].parent_id, None, now),
                [requests[t] EXCEPT !.pc = "attach"])

\* create_node, lines 65-77, and the response
CreateAttach ==
    \E t \in Threads :
        /\ requests[t].pc = "attach"
        /\ Step(t, create_node_attach(Store, requests[t].node_id,
                                      requests[t].parent_id, now).store,
                Idle)

\* delete_node, lines 106-109: the thread keeps the node it found
DeleteLookup ==
    \E t \in Threads :
        /\ requests[t].pc = "lookup"
        /\ IF \/ requests[t].node_id \notin DOMAIN nodes
              \/ is_root(Store, requests[t].node_id)
           THEN Step(t, Store, Idle)
           ELSE Step(t, Store,
                     [requests[t] EXCEPT
                          !.pc = "remove",
                          !.parent_id = nodes[requests[t].node_id].parent_id])

\* delete_node, lines 111-129, and the response.  The runs in which the
\* recursion does not end are left out.
DeleteRest ==
    \E t \in Threads :
        /\ requests[t].pc = "remove"
        /\ ~Loops(Store, requests[t].node_id)
        /\ Step(t, delete_node_rest(Store, requests[t].node_id,
                                    requests[t].parent_id, now).store,
                Idle)

NextThreads ==
    \/ ReceiveGetRoot
    \/ ReceiveCreateChild
    \/ ReceiveDeleteNode
    \/ GetRootRead
    \/ CreateCheckId
    \/ CreateCheckParent
    \/ CreateInsert
    \/ CreateAttach
    \/ DeleteLookup
    \/ DeleteRest

\* The requests of the HTTP layer served by MaxThreads worker threads.
SpecThreads == Init /\ [][NextThreads]_vars

\* ===================================================================
\* Properties.  A state with last /= NoCall is the state right after the
\* call `last`, and prev is the store that call started from.
\* ===================================================================
Stored == DOMAIN nodes

Called(op) == last.op = op

Succeeded(op) == last.op = op /\ last.result = "ok"

\* number of occurrences of x in seq
Count(seq, x) == Cardinality({i \in 1..Len(seq) : seq[i] = x})

\* n, parent(n), parent(parent(n)), ... read off the parent_id fields of
\* store s, for at most fuel steps.
RECURSIVE ParentChain(_, _, _)
ParentChain(s, n, fuel) ==
    IF fuel = 0 \/ n \notin DOMAIN s.nodes
    THEN <<>>
    ELSE <<n>> \o ParentChain(s, s.nodes[n].parent_id, fuel - 1)

ChainOf(s, n) == ParentChain(s, n, Cardinality(DOMAIN s.nodes) + 1)

\* the stored nodes of s that have id among their proper ancestors
Descendants(s, id) ==
    {n \in DOMAIN s.nodes : n /= id /\ Contains(ChainOf(s, n), id)}

Parentless(s) == {n \in DOMAIN s.nodes : s.nodes[n].parent_id = None}

\* C1 (as claimed): after any sequence of calls, failed ones included, at
\* most one stored node has no parent_id, and that node is the one get_root()
\* returns.
C1_AtMostOneParentless ==
    /\ Cardinality(Parentless(Store)) <= 1
    /\ \A n \in Parentless(Store) : get_root(Store) = n

\* C2 (as claimed): create_node without parent_id while a root exists fails
\* with InvalidOperation and leaves nodes, children and root_id as they were.
C2_SecondRootLeavesStore ==
    (Called("create_node") /\ last.arg = None /\ prev.root_id /= None)
        => (last.result = "InvalidOperation" /\ Store = prev)

\* C3: nodes and children have the same keys; every stored node with a
\* parent_id p has p stored and occurs exactly once in children[p]; every id
\* listed in children[p] is a stored node whose parent_id is p.
C3_IndexConsistent ==
    /\ DOMAIN nodes = DOMAIN children
    /\ \A n \in Stored :
          LET p == nodes[n].parent_id
          IN  p /= None => (p \in Stored /\ Count(children[p], n) = 1)
    /\ \A p \in DOMAIN children :
          \A i \in 1..Len(children[p]) :
              LET c == children[p][i]
              IN  c \in Stored /\ nodes[c].parent_id = p

\* a successful move that leaves some node with two children, one of them
\* moved in
C3_Witness ==
    /\ Succeeded("move_node")
    /\ Len(children[last.arg]) = 2
    /\ prev.nodes[last.node_id].parent_id /= last.arg

\* C4: the parent relation is acyclic: from every stored node the parent_id
\* chain reaches a node without parent, and visits no node twice.
C4_Acyclic ==
    \A n \in Stored :
        LET c == ChainOf(Store, n)
        IN  /\ Len(c) >= 1
            /\ nodes[c[Len(c)]].parent_id = None
            /\ \A i, j \in 1..Len(c) : c[i] = c[j] => i = j

\* a successful move that puts the moved node two levels below a node
\* without parent
C4_Witness ==
    /\ Succeeded("move_node")
    /\ Len(ChainOf(Store, last.node_id)) = 3

\* C5: after every call, for every stored node, is_leaf is true exactly if
\* the node has no children.
C5_LeafIffNoChildren ==
    \A n \in Stored : nodes[n].is_leaf <=> (Len(get_children(Store, n)) = 0)

\* a successful move that empties the old parent and fills a leaf
C5_Witness ==
    /\ Succeeded("move_node")
    /\ LET old == prev.nodes[last.node_id].parent_id
       IN  /\ old /= None
           /\ ~prev.nodes[old].is_leaf /\ nodes[old].is_leaf
           /\ prev.nodes[last.arg].is_leaf /\ ~nodes[last.arg].is_leaf

\* C6: once there is a root it stays the root: it is stored and has no
\* parent, no call changes root_id, and delete_node(root) and
\* move_node(root, y), for any y, fail with InvalidOperation.
C6_RootIsPermanent ==
    /\ root_id /= None =>
          (root_id \in Stored /\ nodes[root_id].parent_id = None
              /\ get_root(Store) = root_id)
    /\ (last /= NoCall /\ prev.root_id /= None) => root_id = prev.root_id
    /\ ((Called("delete_node") \/ Called("move_node"))
            /\ prev.root_id /= None /\ last.node_id = prev.root_id)
          => last.result = "InvalidOperation"

\* move_node(root, y) with y not stored
C6_Witness ==
    /\ Called("move_node")
    /\ prev.root_id /= None
    /\ last.node_id = prev.root_id
    /\ last.arg \notin DOMAIN prev.nodes
    /\ last.result = "InvalidOperation"

\* C7: create_node with a stored id fails with InvalidOperation, create_node
\* with a fresh id and a parent_id that is not stored fails with NotFound (a
\* stored id is reported first); either way the store is as it was.
C7_RejectedCreateLeavesStore ==
    Called("create_node") =>
        /\ last.node_id \in DOMAIN prev.nodes
              => (last.result = "InvalidOperation" /\ Store = prev)
        /\ (last.node_id \notin DOMAIN prev.nodes /\ last.arg /= None
                /\ last.arg \notin DOMAIN prev.nodes)
              => (last.result = "NotFound" /\ Store = prev)

\* create_node of a fresh id under a parent that is not stored, in a store
\* that holds a parent with a child
C7_Witness ==
    /\ Called("create_node")
    /\ last.result = "NotFound"
    /\ last.node_id \notin DOMAIN prev.nodes
    /\ \E p \in DOMAIN prev.children : Len(prev.children[p]) > 0

\* C8: a successful delete_node(id) removes id and its descendants and no
\* other node; node_count() drops by the size of that subtree; every other
\* node keeps its parent_id and its remaining children in their order.
C8_DeleteRemovesSubtree ==
    Succeeded("delete_node") =>
        LET gone == {last.node_id} \cup Descendants(prev, last.node_id)
        IN  /\ Stored = (DOMAIN prev.nodes) \ gone
            /\ node_count(Store) = node_count(prev) - Cardinality(gone)
            /\ \A n \in Stored :
                  /\ nodes[n].parent_id = prev.nodes[n].parent_id
                  /\ children[n] =
                        SelectSeq(prev.children[n], LAMBDA c : c \notin gone)

\* deleting a node that has a descendant and a sibling
C8_Witness ==
    /\ Succeeded("delete_node")
    /\ Descendants(prev, last.node_id) /= {}
    /\ LET p == prev.nodes[last.node_id].parent_id
       IN  p /= None /\ Len(children[p]) >= 1

\* C9: for a stored node that is not the root and a stored new parent,
\* move_node fails with CircularReference exactly if the new parent is the
\* node or one of its descendants; a rejected move leaves the store as it was.
C9_CycleCheckExact ==
    Called("move_node") =>
        /\ (last.node_id \in DOMAIN prev.nodes /\ last.node_id /= prev.root_id
                /\ last.arg \in DOMAIN prev.nodes)
              => (last.result = "CircularReference"
                    <=> last.arg \in
                          {last.node_id} \cup Descendants(prev, last.node_id))
        /\ last.result /= "ok" => Store = prev

\* a move under a grandchild, rejected
C9_Witness ==
    /\ Called("move_node")
    /\ last.result = "CircularReference"
    /\ last.arg /= last.node_id
    /\ prev.nodes[last.arg].parent_id /= last.node_id

\* What a successful move_node(x, y) leaves: x is a child of y, is listed
\* under y and under no other node, y is not a leaf, and the parent x had
\* is a leaf exactly if it has no child left.
Reparented(x, y) ==
    /\ last.result = "ok"
    /\ nodes[x].parent_id = y
    /\ \A p \in DOMAIN children : Contains(children[p], x) <=> p = y
    /\ ~nodes[y].is_leaf
    /\ LET old == prev.nodes[x].parent_id
       IN  old /= None => (nodes[old].is_leaf <=> children[old] = <<>>)

MoveOfStoredNonRoot ==
    /\ Called("move_node")
    /\ last.node_id \in DOMAIN prev.nodes
    /\ last.node_id /= prev.root_id
    /\ last.arg \in DOMAIN prev.nodes

\* C10 (as claimed): move(x, y) fails with CircularReference for every y
\* among x and its ancestors, and succeeds for every other stored y.
C10_AncestorOrSelfRejected ==
    MoveOfStoredNonRoot =>
        IF Contains(ChainOf(prev, last.node_id), last.arg)
        THEN last.result = "CircularReference"
        ELSE Reparented(last.node_id, last.arg)

\* C10 (amended): move(x, y) fails with CircularReference for every y among
\* x and its descendants, and succeeds, reparenting x under y and updating
\* the is_leaf of both parents, for every other stored y.
C10_DescendantOrSelfRejected ==
    MoveOfStoredNonRoot =>
        IF last.arg \in {last.node_id} \cup Descendants(prev, last.node_id)
        THEN last.result = "CircularReference" /\ Store = prev
        ELSE Reparented(last.node_id, last.arg)

\* a move under the grandparent: the old parent becomes a leaf
C10_Witness ==
    /\ MoveOfStoredNonRoot
    /\ last.result = "ok"
    /\ LET c == ChainOf(prev, last.node_id)
       IN  /\ Len(c) >= 3
           /\ c[3] = last.arg
           /\ nodes[c[2]].is_leaf

\* ------------------------------------------------------------------- C11
\* the children list of n before the call, with x taken out
WithoutNode(seq, x) == SelectSeq(seq, LAMBDA c : c /= x)

\* C11: a successful move_node(id, new_parent_id) changes only the edge above
\* id: id's parent_id becomes new_parent_id, id leaves its old parent's
\* children and becomes the last child of new_parent_id, the set of stored
\* nodes (and node_count) is unchanged, and every other node keeps its
\* parent_id and every node other than the two parents keeps its children.
C11_MoveChangesOneEdge ==
    Succeeded("move_node") =>
        LET x == last.node_id
            y == last.arg
            old == prev.nodes[x].parent_id
        IN  /\ Stored = DOMAIN prev.nodes
            /\ node_count(Store) = node_count(prev)
            /\ nodes[x].parent_id = y
            /\ children[y] = Append(WithoutNode(prev.children[y], x), x)
            /\ (old /= None /\ old /= y) =>
                    /\ children[old] = WithoutNode(prev.children[old], x)
                    /\ Len(children[old]) = Len(prev.children[old]) - 1
            /\ \A n \in Stored \ {x} : nodes[n].parent_id = prev.nodes[n].parent_id
            /\ \A n \in Stored \ {old, y} : children[n] = prev.children[n]
            /\ \A n \in Stored : nodes[n].description = prev.nodes[n].description

\* A node with a child of its own was moved from one parent to another parent
\* that already had a child.
C11_Witness ==
    /\ Succeeded("move_node")
    /\ prev.nodes[last.node_id].parent_id \notin {None, last.arg}
    /\ Len(prev.children[last.arg]) >= 1
    /\ Len(children[last.node_id]) >= 1


\* ------------------------------------------------------------------- C12
\* the sibling right before (d = -1) or right after (d = 1) id in its
\* parent's child order, None when there is none or id has no parent
Neighbour(s, id, d) ==
    LET p == s.nodes[id].parent_id
    IN  IF p = None
        THEN None
        ELSE LET at == {i \in 1..Len(s.children[p]) :
                            /\ s.children[p][i] = id
                            /\ i + d \in 1..Len(s.children[p])}
             IN  IF at = {} THEN None
                 ELSE s.children[p][(CHOOSE i \in at : TRUE) + d]

ZipperMoves == {"up", "down", "left", "right"}

\* C12: on a stored node the zipper moves return without raising and leave
\* the store as it was; up is the parent (None for the root), down the first
\* child (None for a leaf), left and right the sibling right before and right
\* after in the parent's child order (None at either end and for the root).
C12_ZipperMoves ==
    (last.op \in ZipperMoves /\ last.node_id \in DOMAIN prev.nodes) =>
        LET id == last.node_id
        IN  /\ last.result = "ok"
            /\ Store = prev
            /\ Called("up") => last.value = nodes[id].parent_id
            /\ Called("up") /\ id = root_id => last.value = None
            /\ Called("down") =>
                  last.value = IF children[id] = <<>> THEN None
                               ELSE Head(children[id])
            /\ Called("left") => last.value = Neighbour(Store, id, -1)
            /\ Called("right") => last.value = Neighbour(Store, id, 1)
            /\ (Called("left") \/ Called("right")) /\ id = root_id =>
                  last.value = None

\* right() was called on the middle one of three siblings and returned the
\* third.
C12_Witness ==
    /\ Called("right")
    /\ last.node_id \in Stored
    /\ last.value /= None
    /\ Neighbour(Store, last.node_id, -1) /= None
    /\ last.value /= Neighbour(Store, last.node_id, -1)


\* ------------------------------------------------------------------- C13
\* the ids of the children expand was called with, in the order given
KidIds == [i \in 1..Len(last.kids) |-> last.kids[i].id]

ExpandOfNonLeafRejected ==
    (Called("expand") /\ last.node_id \in DOMAIN prev.nodes
                      /\ ~prev.nodes[last.node_id].is_leaf) =>
        /\ last.result = "InvalidOperation"
        /\ Store = prev

ExpandOfLeafAddsChildren ==
    Succeeded("expand") =>
        /\ prev.nodes[last.node_id].is_leaf
        /\ children[last.node_id] = KidIds
        /\ \A i \in 1..Len(KidIds) :
              /\ KidIds[i] \in Stored \ DOMAIN prev.nodes
              /\ nodes[KidIds[i]].is_leaf
              /\ nodes[KidIds[i]].parent_id = last.node_id

Structure(s) ==
    [root_id |-> s.root_id,
     children |-> s.children,
     nodes |-> [n \in DOMAIN s.nodes |->
                   [id |-> s.nodes[n].id,
                    parent_id |-> s.nodes[n].parent_id,
                    description |-> s.nodes[n].description,
                    metadata |-> s.nodes[n].metadata,
                    is_leaf |-> s.nodes[n].is_leaf]]]

\* the outcome of collapse(id) with no summary, called right after the
\* expand under observation
CollapsedAgain == collapse(Store, last.node_id, None, now)

\* C14: expand(leaf, children) with a non-empty list of fresh ids, followed by
\* collapse(leaf) with no summary, gives back the structure the store had
\* before the expand: the leaf is a leaf again, the created children are
\* gone, node_count, parents, children lists and descriptions are as before.
C14_ExpandCollapseRoundTrip ==
    (Succeeded("expand") /\ last.kids /= <<>>) =>
        /\ CollapsedAgain.result = "ok"
        /\ Structure(CollapsedAgain.store) = Structure(prev)
        /\ CollapsedAgain.store.nodes[last.node_id].is_leaf
        /\ node_count(CollapsedAgain.store) = node_count(prev)
        /\ \A i \in 1..Len(last.kids) :
              last.kids[i].id \notin DOMAIN CollapsedAgain.store.nodes

\* A leaf below the root was expanded with two children, and the collapse
\* that follows succeeds and removes both.
C14_Witness ==
    /\ Succeeded("expand")
    /\ Len(last.kids) = 2
    /\ nodes[last.node_id].parent_id /= None
    /\ CollapsedAgain.result = "ok"
    /\ node_count(CollapsedAgain.store) = node_count(Store) - 2


\* ------------------------------------------------------------------- C15
\* a summary that is no node's description
NewText == 2

\* what C15 says of the outcome r of collapse(id, summary) called on store s
Collapsed(s, id, summary, r) ==
    IF s.nodes[id].is_leaf
    THEN /\ r.result = "InvalidOperation"
         /\ r.store = s
    ELSE LET gone == Descendants(s, id)
             p == s.nodes[id].parent_id
         IN  /\ r.result = "ok"
             /\ gone /= {}
             /\ DOMAIN r.store.nodes = (DOMAIN s.nodes) \ gone
             /\ r.store.nodes[id].is_leaf
             /\ r.store.children[id] = <<>>
             /\ r.store.root_id = s.root_id
             /\ p /= None => r.store.children[p] = s.children[p]
             /\ \A n \in DOMAIN r.store.nodes :
                   /\ r.store.nodes[n].parent_id = s.nodes[n].parent_id
                   /\ n /= id => /\ r.store.children[n] = s.children[n]
                                 /\ r.store.nodes[n].description =
                                        s.nodes[n].description
             /\ r.store.nodes[id].description =
                   IF summary /= None THEN summary ELSE s.nodes[id].description

\* C15: collapse(id, summary) on a leaf fails with InvalidOperation and
\* changes nothing; on a non-leaf it removes the descendants of id and
\* nothing else, leaves id a leaf at its place among its siblings, and sets
\* id's description to the summary when there is one and leaves it otherwise.
\* Checked of the call made and of the same call with a summary that differs
\* from every description.
C15_Collapse ==
    (Called("collapse") /\ last.node_id \in DOMAIN prev.nodes) =>
        /\ Collapsed(prev, last.node_id, last.arg,
                     [store |-> Store, result |-> last.result])
        /\ Collapsed(prev, last.node_id, NewText,
                     collapse(prev, last.node_id, NewText, now))

\* A node with a child, second among its siblings, was collapsed with a
\* summary; with the other summary its description would be that one.
C15_Witness ==
    /\ Succeeded("collapse")
    /\ last.arg /= None
    /\ nodes[last.node_id].parent_id /= None
    /\ Len(children[nodes[last.node_id].parent_id]) = 2
    /\ children[nodes[last.node_id].parent_id][2] = last.node_id
    /\ nodes[last.node_id].description = last.arg
    /\ collapse(prev, last.node_id, NewText, now).store.nodes[last.node_id].description
           = NewText


\* ------------------------------------------------------------------- C16
\* the positions in the list given to expand whose id was stored before the
\* call or stands earlier in the list: creates that cannot succeed
Unfresh ==
    {i \in 1..Len(last.kids) :
        \/ last.kids[i].id \in DOMAIN prev.nodes
        \/ \E j \in 1..(i - 1) : last.kids[j].id = last.kids[i].id}

FirstUnfresh == CHOOSE k \in Unfresh : \A i \in Unfresh : k <= i

ExpandOfLeaf ==
    /\ Called("expand")
    /\ last.node_id \in DOMAIN prev.nodes
    /\ prev.nodes[last.node_id].is_leaf

\* C16: when the k-th create inside expand(id, children) fails, expand raises
\* that error, the first k-1 children stay stored under id in order, no later
\* child is created, id is a non-leaf iff k > 1, and the store is still
\* consistent (parent/children agree, is_leaf iff no children).
C16_ExpandStopsAtFailedCreate ==
    ExpandOfLeaf =>
        IF Unfresh = {}
        THEN last.result = "ok"
        ELSE
        LET k == FirstUnfresh
            made == SubSeq(KidIds, 1, k - 1)
        IN  /\ last.result = "InvalidOperation"
            /\ children[last.node_id] = made
            /\ Stored = (DOMAIN prev.nodes) \cup {made[i] : i \in 1..Len(made)}
            /\ \A i \in 1..Len(made) :
                  /\ nodes[made[i]].parent_id = last.node_id
                  /\ nodes[made[i]].is_leaf
            /\ nodes[last.node_id].is_leaf <=> k = 1
            /\ \A n \in (DOMAIN prev.nodes) \ {last.node_id} :
                  /\ nodes[n] = prev.nodes[n]
                  /\ children[n] = prev.children[n]
            /\ C3_IndexConsistent
            /\ C5_LeafIffNoChildren

\* The second create of an expand failed: the first child is stored under a
\* node that is no longer a leaf.
C16_Witness ==
    /\ ExpandOfLeaf
    /\ last.result = "InvalidOperation"
    /\ Unfresh /= {}
    /\ FirstUnfresh = 2
    /\ children[last.node_id] = <<last.kids[1].id>>
    /\ ~nodes[last.node_id].is_leaf


\* ------------------------------------------------------------------- C17
\* pre-order enumeration of the subtree of n: n, then the subtrees of its
\* children in child order
RECURSIVE Preorder(_, _), PreorderEach(_, _)
Preorder(s, n) == <<n>> \o PreorderEach(s, s.children[n])

PreorderEach(s, seq) ==
    IF seq = <<>>
    THEN <<>>
    ELSE Preorder(s, Head(seq)) \o PreorderEach(s, Tail(seq))

\* pre-order enumeration of the whole tree from the root
PreorderFromRoot(s) ==
    IF s.root_id = None THEN <<>> ELSE Preorder(s, s.root_id)

\* the entry after x in the enumeration e; None when x is the last entry
After(e, x) ==
    IF IndexOf(e, x) = Len(e) THEN None ELSE e[IndexOf(e, x) + 1]

\* C17: in every reachable state and for every stored node id,
\* compute_next_dfs(id) is the node right after id in the pre-order
\* enumeration of the whole tree from the root, and None exactly when id is
\* the last node of that enumeration.
C17_NextDfsIsPreorderSuccessor ==
    (Called("compute_next_dfs") /\ last.node_id \in Stored) =>
        /\ last.result = "ok"
        /\ Contains(PreorderFromRoot(Store), last.node_id)
        /\ last.value = After(PreorderFromRoot(Store), last.node_id)

\* ------------------------------------------------------------------- C18
\* C18: compute_prev_dfs is the inverse of compute_next_dfs: for stored x and
\* y, compute_next_dfs(x) = y iff compute_prev_dfs(y) = x; and
\* compute_prev_dfs is None only for the root.
C18_PrevDfsInvertsNextDfs ==
    /\ (Succeeded("compute_next_dfs") /\ last.value /= None) =>
            compute_prev_dfs(Store, last.value).value = last.node_id
    /\ (Succeeded("compute_prev_dfs") /\ last.value /= None) =>
            compute_next_dfs(Store, last.value).value = last.node_id
    /\ (Succeeded("compute_prev_dfs") /\ last.value = None) =>
            last.node_id = root_id

\* ------------------------------------------------------------------- C19
\* level-order enumeration: a level, then the level made of the children of
\* its nodes, in order
RECURSIVE ChildrenOfEach(_, _), Levels(_, _)
ChildrenOfEach(s, level) ==
    IF level = <<>>
    THEN <<>>
    ELSE s.children[Head(level)] \o ChildrenOfEach(s, Tail(level))

Levels(s, level) ==
    IF level = <<>>
    THEN <<>>
    ELSE level \o Levels(s, ChildrenOfEach(s, level))

LevelOrderFromRoot(s) ==
    IF s.root_id = None THEN <<>> ELSE Levels(s, <<s.root_id>>)

\* C19: for every stored node id, compute_next_bfs(id) is the node right
\* after id in the level-order enumeration from the root, and None exactly
\* when id is the last node of that enumeration or is not reachable from the
\* root.
C19_NextBfsIsLevelOrderSuccessor ==
    (Called("compute_next_bfs") /\ last.node_id \in Stored) =>
        /\ last.result = "ok"
        /\ Store = prev
        /\ IF Contains(LevelOrderFromRoot(Store), last.node_id)
           THEN last.value = After(LevelOrderFromRoot(Store), last.node_id)
           ELSE last.value = None

\* compute_next_bfs returned the sibling of a node that has a child: the
\* level order and the pre-order differ there.
C19_Witness ==
    /\ Succeeded("compute_next_bfs")
    /\ last.node_id \in Stored
    /\ last.value /= None
    /\ children[last.node_id] /= <<>>
    /\ nodes[last.value].parent_id = nodes[last.node_id].parent_id

\* ------------------------------------------------------------------- C20
\* the part of the enumeration e from x on
SuffixFrom(e, x) ==
    IF Contains(e, x) THEN SubSeq(e, IndexOf(e, x), Len(e)) ELSE <<>>

\* C20: traverse_dfs(start) yields start and then what compute_next_dfs
\* gives, repeatedly, until it gives None; this is the suffix from start of
\* the pre-order enumeration of the whole tree from the root, and
\* traverse_dfs(root) yields every node under the root exactly once.
C20_TraverseDfsIsPreorderSuffix ==
    (Called("traverse_dfs") /\ last.node_id \in Stored) =>
        /\ last.result = "ok"
        /\ last.seq /= <<>>
        /\ last.seq[1] = last.node_id
        /\ \A i \in 1..(Len(last.seq) - 1) :
              last.seq[i + 1] = compute_next_dfs(Store, last.seq[i]).value
        /\ compute_next_dfs(Store, last.seq[Len(last.seq)]).value = None
        /\ last.seq = SuffixFrom(PreorderFromRoot(Store), last.node_id)
        /\ last.node_id = root_id =>
              /\ {last.seq[i] : i \in 1..Len(last.seq)} =
                     {root_id} \cup Descendants(Store, root_id)
              /\ \A n \in Stored : Count(last.seq, n) <= 1


\* ------------------------------------------------------------------- C21
\* number of proper ancestors of n
DepthOf(s, n) == Len(ChainOf(s, n)) - 1

\* C21: traverse_bfs(start) yields start and the descendants of start, each
\* once, level by level (a node before its children, children in child
\* order, depth d before depth d+1), and no node outside start's subtree.
C21_TraverseBfsIsSubtreeLevelOrder ==
    (Called("traverse_bfs") /\ last.node_id \in Stored) =>
        /\ last.result = "ok"
        /\ Store = prev
        /\ {last.seq[i] : i \in 1..Len(last.seq)} =
               {last.node_id} \cup Descendants(Store, last.node_id)
        /\ \A n \in Stored : Count(last.seq, n) <= 1
        /\ last.seq = Levels(Store, <<last.node_id>>)
        /\ \A i, j \in 1..Len(last.seq) :
              i < j => /\ DepthOf(Store, last.seq[i]) <= DepthOf(Store, last.seq[j])
                       /\ last.seq[j] /= nodes[last.seq[i]].parent_id

\* traverse_bfs started at a node that has a child and a sibling: the child
\* is yielded, the sibling is not.
C21_Witness ==
    /\ Succeeded("traverse_bfs")
    /\ last.node_id \in Stored
    /\ Len(last.seq) >= 2
    /\ nodes[last.node_id].parent_id /= None
    /\ \E b \in Stored :
          /\ b /= last.node_id
          /\ nodes[b].parent_id = nodes[last.node_id].parent_id
          /\ ~Contains(last.seq, b)


\* ------------------------------------------------------------------- C22
\* every node of the tree under the root has at most one child
LinearFromRoot(s) ==
    /\ s.root_id /= None
    /\ \A n \in {s.root_id} \cup Descendants(s, s.root_id) : Len(s.children[n]) <= 1

\* n, its only child, that child's only child, ...
RECURSIVE ChainDown(_, _)
ChainDown(s, n) ==
    IF s.children[n] = <<>>
    THEN <<n>>
    ELSE <<n>> \o ChainDown(s, s.children[n][1])

\* C22: on a tree that is a linear chain, traverse_dfs(root) and
\* traverse_bfs(root) yield the same sequence: the chain from the root down.
C22_DfsAndBfsAgreeOnChain ==
    (/\ Called("traverse_dfs") \/ Called("traverse_bfs")
     /\ last.node_id = root_id
     /\ LinearFromRoot(Store)) =>
        /\ last.result = "ok"
        /\ last.seq = ChainDown(Store, root_id)
        /\ traverse_dfs(Store, root_id).value = last.seq
        /\ traverse_bfs(Store, root_id).value = last.seq

\* traverse_dfs(root) on a chain of at least three nodes
C22_Witness ==
    /\ Succeeded("traverse_dfs")
    /\ last.node_id = root_id
    /\ LinearFromRoot(Store)
    /\ Len(last.seq) >= 3
    /\ traverse_bfs(Store, root_id).value = last.seq


\* ------------------------------------------------------------------- C23
\* the proper ancestors of n, the topmost first
AncestorsTopFirst(s, n) ==
    LET above == Tail(ChainOf(s, n))
    IN  [i \in 1..Len(above) |-> above[Len(above) + 1 - i]]

\* C23: for every stored id, build_context(id).depth = len(breadcrumbs) = the
\* number of proper ancestors of id; breadcrumbs are those ancestors,
\* root-first (the first is the root, the last is id's parent), each with the
\* ancestor's current description, and id itself is not among them.
C23_BreadcrumbsFromRoot ==
    (Called("build_context") /\ last.node_id \in Stored) =>
        LET crumbs == last.ctx.breadcrumbs
            anc == AncestorsTopFirst(Store, last.node_id)
        IN  /\ last.result = "ok"
            /\ last.ctx.depth = Len(crumbs)
            /\ last.ctx.depth = Len(anc)
            /\ \A i \in 1..Len(crumbs) :
                  /\ crumbs[i].id = anc[i]
                  /\ crumbs[i].description = nodes[anc[i]].description
                  /\ crumbs[i].id /= last.node_id
            /\ last.ctx.depth > 0 =>
                  /\ crumbs[1].id = root_id
                  /\ crumbs[Len(crumbs)].id = nodes[last.node_id].parent_id


\* ------------------------------------------------------------------- C24
\* C24: for every stored id, build_context(id) succeeds with
\* 0 <= sibling_position < total_siblings = len(get_siblings(id)) >= 1 and
\* get_siblings(id)[sibling_position] = id; get_siblings(id) holds id once,
\* is get_children(parent(id)) for a non-root node and [root] for the root.
C24_SiblingPosition ==
    (Called("build_context") /\ last.node_id \in Stored) =>
        LET id == last.node_id
            siblings == get_siblings(Store, id).value
            pos == last.ctx.sibling_position
        IN  /\ last.result = "ok"
            /\ get_siblings(Store, id).result = "ok"
            /\ 0 <= pos /\ pos < last.ctx.total_siblings
            /\ last.ctx.total_siblings = Len(siblings)
            /\ Len(siblings) >= 1
            /\ siblings[pos + 1] = id
            /\ Count(siblings, id) = 1
            /\ id = root_id =>
                  siblings = <<root_id>> /\ pos = 0 /\ last.ctx.total_siblings = 1
            /\ id /= root_id =>
                  /\ nodes[id].parent_id /= None
                  /\ siblings = get_children_call(Store, nodes[id].parent_id).value


\* ------------------------------------------------------------------- C25
\* C25: for every stored id, build_context(id).children_count is the length
\* of get_children(id), and has_children (read from the is_leaf flag) is true
\* iff children_count > 0.
C25_ChildrenInfo ==
    (Called("build_context") /\ last.node_id \in Stored) =>
        /\ last.result = "ok"
        /\ last.ctx.children_count =
               Len(get_children_call(Store, last.node_id).value)
        /\ last.ctx.children_count = Len(children[last.node_id])
        /\ last.ctx.has_children <=> last.ctx.children_count > 0

\* build_context on a node below the root that has two children
C25_Witness ==
    /\ Succeeded("build_context")
    /\ last.node_id \in Stored
    /\ last.node_id /= root_id
    /\ last.ctx.children_count = 2
    /\ last.ctx.has_children


\* ------------------------------------------------------------------- C26
Has(rel) == rel \in DOMAIN last.links

\* the link rel is there and points to node v
PointsTo(rel, v) ==
    Has(rel) /\ last.links[rel].href = [id |-> v, suffix |-> ""]

\* the link rel is there iff v is a node, and then it points to v
LinkIff(rel, v) == IF v = None THEN ~Has(rel) ELSE PointsTo(rel, v)

\* C26: for every stored id, build_links(id) has self (href id) and, when a
\* root exists, root (href the root's id); up iff id has a parent, down iff
\* id has a child, left/right iff id has a previous/next sibling, children
\* (href id/children) iff down, next-dfs/prev-dfs/next-bfs iff the
\* TraversalService call returns a node; every href but children's is the id
\* of a stored node; on a single-node tree only self and root are there and
\* both point to that node.
C26_Links ==
    (Called("build_links") /\ last.node_id \in Stored) =>
        LET id == last.node_id
        IN  /\ last.result = "ok"
            /\ PointsTo("self", id)
            /\ root_id /= None => PointsTo("root", root_id)
            /\ LinkIff("up", nodes[id].parent_id)
            /\ LinkIff("down", IF children[id] = <<>> THEN None
                               ELSE Head(children[id]))
            /\ LinkIff("left", Neighbour(Store, id, -1))
            /\ LinkIff("right", Neighbour(Store, id, 1))
            /\ Has("children") <=> Has("down")
            /\ Has("children") =>
                  last.links["children"].href = [id |-> id, suffix |-> "/children"]
            /\ LinkIff("next-dfs", compute_next_dfs(Store, id).value)
            /\ LinkIff("prev-dfs", compute_prev_dfs(Store, id).value)
            /\ LinkIff("next-bfs", compute_next_bfs(Store, id).value)
            /\ \A rel \in (DOMAIN last.links) \ {"children"} :
                  /\ last.links[rel].href.id \in Stored
                  /\ last.links[rel].href.suffix = ""
            /\ node_count(Store) = 1 =>
                  /\ DOMAIN last.links = {"self", "root"}
                  /\ PointsTo("root", id)


\* build_links on a node with a parent, a child and a next sibling: the
\* next-dfs link goes to the child and the next-bfs link to the sibling.
C26_Witness ==
    /\ Succeeded("build_links")
    /\ last.node_id \in Stored
    /\ {"self", "root", "up", "down", "right", "children",
        "next-dfs", "prev-dfs", "next-bfs"} \subseteq DOMAIN last.links
    /\ last.links["next-dfs"].href = last.links["down"].href
    /\ last.links["next-bfs"].href = last.links["right"].href
    /\ ~Has("left")


\* ------------------------------------------------------------------- C27
\* the calls that take the id of a node to look up, update, delete or
\* navigate from
CallsOnOneId ==
    {"get_node", "update_node", "delete_node", "get_children", "get_siblings",
     "get_parent", "move_node", "up", "down", "left", "right", "expand",
     "collapse", "compute_next_dfs", "compute_prev_dfs", "compute_next_bfs",
     "build_context", "build_links"}

\* C27: every such call on an id that is not stored (for move_node: either
\* argument) fails with NotFound and leaves the store unchanged.
C27_NotFoundOnAbsentId ==
    /\ (last.op \in CallsOnOneId /\ last.node_id \notin DOMAIN prev.nodes) =>
            last.result = "NotFound" /\ Store = prev
    /\ (Called("move_node") /\ last.arg \notin DOMAIN prev.nodes) =>
            last.result = "NotFound" /\ Store = prev


\* ------------------------------------------------------------------- C28
\* a metadata value that no node carries
NewMetadata == 3

\* what C28 says of the outcome r of update_node(id, description, metadata)
\* called on store s
Updated(s, id, description, metadata, r) ==
    /\ r.result = "ok"
    /\ r.store.root_id = s.root_id
    /\ r.store.children = s.children
    /\ DOMAIN r.store.nodes = DOMAIN s.nodes
    /\ node_count(r.store) = node_count(s)
    /\ \A n \in (DOMAIN s.nodes) \ {id} : r.store.nodes[n] = s.nodes[n]
    /\ r.store.nodes[id].id = s.nodes[id].id
    /\ r.store.nodes[id].parent_id = s.nodes[id].parent_id
    /\ r.store.nodes[id].is_leaf = s.nodes[id].is_leaf
    /\ r.store.nodes[id].created_at = s.nodes[id].created_at
    /\ r.store.nodes[id].description =
           IF description /= None THEN description ELSE s.nodes[id].description
    /\ r.store.nodes[id].metadata =
           IF metadata /= None THEN metadata ELSE s.nodes[id].metadata

\* C28: update_node(id, description?, metadata?) changes only the supplied
\* fields of node id (an omitted one keeps its value) and its updated_at;
\* parent_id, is_leaf, created_at, the children lists, the root id,
\* node_count and every other node stay.  Checked of the call made and of the
\* same call, at a later time, with each combination of a new description and
\* new metadata supplied or omitted.
C28_UpdateChangesSuppliedFields ==
    (Called("update_node") /\ last.node_id \in DOMAIN prev.nodes) =>
        /\ Updated(prev, last.node_id, last.arg, last.arg2,
                   [store |-> Store, result |-> last.result])
        /\ \A d \in {None, NewText}, m \in {None, NewMetadata} :
              /\ Updated(prev, last.node_id, d, m,
                         update_node(prev, last.node_id, d, m, now + 1))
              /\ update_node(prev, last.node_id, d, m, now + 1)
                     .store.nodes[last.node_id].updated_at = now + 1

\* update_node with a description on a node that has a parent and a child;
\* with the new description and no metadata only the description would
\* change.
C28_Witness ==
    /\ Succeeded("update_node")
    /\ last.arg /= None
    /\ nodes[last.node_id].parent_id /= None
    /\ children[last.node_id] /= <<>>
    /\ update_node(prev, last.node_id, NewText, None, now + 1)
           .store.nodes[last.node_id].description = NewText
    /\ update_node(prev, last.node_id, NewText, None, now + 1)
           .store.nodes[last.node_id].metadata = prev.nodes[last.node_id].metadata


\* ------------------------------------------------------------------- C29
\* the children n had before the call and still has, in their old order; a
\* node that move_node put under n counts as attached anew
Remaining(n) ==
    SelectSeq(prev.children[n],
              LAMBDA c : /\ Contains(children[n], c)
                         /\ ~(Succeeded("move_node") /\ c = last.node_id))

\* the children the call attached to n, in the order they stand in
Attached(n) ==
    SelectSeq(children[n], LAMBDA c : ~Contains(Remaining(n), c))

\* C29: get_children(id) returns the children in the order in which they
\* were attached (create_node and move_node append at the end, expand appends
\* in the order given), and deleting or moving away a child keeps the order
\* of the remaining children of every node.
C29_ChildrenInAttachOrder ==
    (last /= NoCall /\ children /= prev.children) =>
        /\ \A n \in Stored \ DOMAIN prev.nodes : children[n] = <<>>
        /\ \A n \in Stored \cap DOMAIN prev.nodes :
              /\ get_children_call(Store, n).value = children[n]
              /\ children[n] = Remaining(n) \o Attached(n)
              /\ Attached(n) /= <<>> =>
                    IF Called("expand")
                    THEN /\ n = last.node_id
                         /\ Attached(n) = SubSeq(KidIds, 1, Len(Attached(n)))
                    ELSE /\ Called("create_node") \/ Called("move_node")
                         /\ n = last.arg
                         /\ Attached(n) = <<last.node_id>>

\* The middle one of three children was deleted: the first and the third
\* remain, in that order.
C29_Witness ==
    /\ Succeeded("delete_node")
    /\ \E n \in Stored :
          /\ Len(prev.children[n]) = 3
          /\ prev.children[n][2] = last.node_id
          /\ children[n] = <<prev.children[n][1], prev.children[n][3]>>


Range(seq) == {seq[i] : i \in 1..Len(seq)}

\* C32: in every reachable state with a root, every stored node is reachable
\* from the root through the children index: traverse_dfs(root) and
\* traverse_bfs(root) each yield exactly node_count() nodes, none twice, and
\* the ids they yield are the ids of the store.
C32_AllReachableFromRoot ==
    get_root(Store) /= None =>
        LET dfs == traverse_dfs(Store, root_id)
            bfs == traverse_bfs(Store, root_id)
        IN  /\ dfs.result = "ok"
            /\ bfs.result = "ok"
            /\ Len(dfs.value) = node_count(Store)
            /\ Len(bfs.value) = node_count(Store)
            /\ \A n \in Stored : Count(dfs.value, n) = 1
            /\ \A n \in Stored : Count(bfs.value, n) = 1
            /\ Range(dfs.value) = Stored
            /\ Range(bfs.value) = Stored


\* ------------------------------------------------------------------- C34
\* C34: compute_next_bfs agrees with traverse_bfs from the root: for every
\* two consecutive elements x, y of traverse_bfs(root),
\* compute_next_bfs(x) = y, and compute_next_bfs of the last element is None.
C34_NextBfsFollowsTraverseBfs ==
    (Succeeded("traverse_bfs") /\ last.node_id = root_id) =>
        /\ last.seq /= <<>>
        /\ \A i \in 1..(Len(last.seq) - 1) :
              /\ compute_next_bfs(Store, last.seq[i]).result = "ok"
              /\ compute_next_bfs(Store, last.seq[i]).value = last.seq[i + 1]
        /\ compute_next_bfs(Store, last.seq[Len(last.seq)]).result = "ok"
        /\ compute_next_bfs(Store, last.seq[Len(last.seq)]).value = None

\* traverse_bfs from a root with two children, the first of which has a
\* child: the level order differs from the pre-order.
C34_Witness ==
    /\ Succeeded("traverse_bfs")
    /\ last.node_id = root_id
    /\ Len(last.seq) = 4
    /\ Len(children[root_id]) = 2
    /\ children[children[root_id][1]] /= <<>>
    /\ last.seq[3] = children[root_id][2]


\* ------------------------------------------------------------------- C35
\* the node reached from v by k applications of right; None once right
\* gives None
RECURSIVE RightTimes(_, _, _)
RightTimes(s, v, k) ==
    IF k = 0 \/ v = None
    THEN v
    ELSE RightTimes(s, right(s, v).value, k - 1)

\* C35: the zipper moves are mutually inverse in every reachable state: if
\* left(x) = y then right(y) = x and conversely; if down(x) = y then
\* up(y) = x; and every stored non-root x is reached from up(x) by one down
\* followed by sibling_position(x) applications of right.
C35_ZipperMovesInverse ==
    /\ (Succeeded("left") /\ last.value /= None) =>
            right(Store, last.value) = Found(last.node_id)
    /\ (Succeeded("right") /\ last.value /= None) =>
            left(Store, last.value) = Found(last.node_id)
    /\ (Succeeded("down") /\ last.value /= None) =>
            up(Store, last.value) = Found(last.node_id)
    /\ (Succeeded("up") /\ last.node_id /= root_id) =>
            /\ last.value /= None
            /\ build_context(Store, last.node_id).result = "ok"
            /\ RightTimes(Store, down(Store, last.value).value,
                   build_context(Store, last.node_id).value.sibling_position)
                 = last.node_id


\* ------------------------------------------------------------------- C37
\* move_node(x, p) was called on a stored node x whose parent is p
MoveUnderOwnParent ==
    /\ Called("move_node")
    /\ last.node_id \in DOMAIN prev.nodes
    /\ prev.nodes[last.node_id].parent_id = last.arg

\* C37: move_node(x, p) where p is already the parent of x succeeds and is
\* not a no-op: x becomes the last child of p, the relative order of p's
\* other children is unchanged, p.is_leaf stays false, and the node set and
\* every parent_id are unchanged.
C37_MoveUnderOwnParent ==
    MoveUnderOwnParent =>
        LET x == last.node_id
            p == last.arg
        IN  /\ last.result = "ok"
            /\ children[p][Len(children[p])] = x
            /\ Count(children[p], x) = 1
            /\ WithoutNode(children[p], x) = WithoutNode(prev.children[p], x)
            /\ Len(children[p]) = Len(prev.children[p])
            /\ ~prev.nodes[p].is_leaf
            /\ ~nodes[p].is_leaf
            /\ Stored = DOMAIN prev.nodes
            /\ \A n \in Stored : nodes[n].parent_id = prev.nodes[n].parent_id
            /\ \A n \in Stored \ {p} : children[n] = prev.children[n]

\* the first of two or more children was moved under its own parent and went
\* to the end of the list
C37_Witness ==
    /\ MoveUnderOwnParent
    /\ last.result = "ok"
    /\ Len(prev.children[last.arg]) >= 2
    /\ prev.children[last.arg][1] = last.node_id
    /\ children[last.arg] /= prev.children[last.arg]


\* ------------------------------------------------------------------- C38
\* the outcome the fixed order of checks gives move_node(id, new_parent_id)
\* on the store s
MoveOutcome(s, id, new_parent_id) ==
    IF id \notin DOMAIN s.nodes THEN "NotFound"
    ELSE IF id = s.root_id THEN "InvalidOperation"
    ELSE IF new_parent_id \notin DOMAIN s.nodes THEN "NotFound"
    ELSE IF new_parent_id = id \/ new_parent_id \in Descendants(s, id)
    THEN "CircularReference"
    ELSE "ok"

\* C38: move_node checks its failure conditions in a fixed order, so exactly
\* one failure kind is reported for any input: NotFound if id is not stored;
\* otherwise InvalidOperation if id is the root (even when new_parent_id is
\* not stored or equals id); otherwise NotFound if new_parent_id is not
\* stored; otherwise CircularReference if new_parent_id is id or a
\* descendant of id.
C38_MoveFailureOrder ==
    Called("move_node") =>
        /\ last.result = MoveOutcome(prev, last.node_id, last.arg)
        /\ last.result /= "ok" => Store = prev
        /\ (last.node_id = prev.root_id /\ prev.root_id /= None) =>
              last.result = "InvalidOperation"

\* move_node was called on the root with a new parent that is not stored
C38_Witness ==
    /\ Called("move_node")
    /\ prev.root_id /= None
    /\ last.node_id = prev.root_id
    /\ last.arg \notin DOMAIN prev.nodes
    /\ last.result = "InvalidOperation"


\* ------------------------------------------------------------------- C36
\* the nodes stored before and after the call
Kept == Stored \cap DOMAIN prev.nodes

\* the call changed the description, metadata, parent_id or is_leaf of n
FieldChanged(n) ==
    \/ nodes[n].description /= prev.nodes[n].description
    \/ nodes[n].metadata /= prev.nodes[n].metadata
    \/ nodes[n].parent_id /= prev.nodes[n].parent_id
    \/ nodes[n].is_leaf /= prev.nodes[n].is_leaf

\* the node n after update_node(n, description, metadata) at the present time
UpdatedNow(n, description, metadata) ==
    update_node(Store, n, description, metadata, now).store.nodes[n]

\* C36: with a clock that does not go back, a node's created_at never
\* changes after creation, its updated_at never decreases and is always
\* >= created_at, and every operation that changes a node's description,
\* metadata, parent_id or is_leaf flag (a parent's is_leaf flip caused by
\* creating, deleting or moving a child included) sets that node's
\* updated_at to the time of that operation.
C36_Timestamps ==
    /\ \A n \in Stored :
          /\ nodes[n].created_at <= nodes[n].updated_at
          /\ nodes[n].updated_at <= now
    /\ last /= NoCall =>
          \A n \in Kept :
              /\ nodes[n].created_at = prev.nodes[n].created_at
              /\ nodes[n].updated_at >= prev.nodes[n].updated_at
              /\ FieldChanged(n) => nodes[n].updated_at = now
    /\ last = NoCall =>
          \A n \in Stored, d \in {None, NewText}, m \in {None, NewMetadata} :
              /\ UpdatedNow(n, d, m).created_at = nodes[n].created_at
              /\ UpdatedNow(n, d, m).updated_at = now
              /\ d /= None => UpdatedNow(n, d, m).description /= nodes[n].description
              /\ m /= None => UpdatedNow(n, d, m).metadata /= nodes[n].metadata

\* the last child of a node was deleted at a later time than the node's last
\* update: the node became a leaf and its updated_at moved to that time
C36_Witness ==
    /\ Succeeded("delete_node")
    /\ \E p \in Kept :
          /\ ~prev.nodes[p].is_leaf
          /\ nodes[p].is_leaf
          /\ prev.nodes[p].updated_at < now
          /\ nodes[p].updated_at = now
          /\ nodes[p].created_at < now


\* ------------------------------------------------------------------- C31
\* thread t has run a step of a call that writes the store and has not
\* finished that call
MidCall(t) ==
    \/ requests[t].pc \in {"check_parent", "insert", "attach", "remove"}
    \/ requests[t].pc = "check_id" /\ requests[t].op = "get_root"

\* some children list holds the same id twice
DuplicatedChild ==
    \E n \in DOMAIN children : \E i, j \in 1..Len(children[n]) :
        i < j /\ children[n][i] = children[n][j]

\* some stored node names a parent that is not stored
DanglingParent ==
    \E n \in Stored : nodes[n].parent_id /= None /\ nodes[n].parent_id \notin Stored

\* C31: all mutating calls the HTTP layer makes on the shared TreeService
\* (create_child, delete_node, the auto-creating get_root, ...) are
\* serialized: no two of them interleave, so the check-then-act steps of
\* create_node and delete_node cannot produce a duplicated child entry, a
\* dangling parent reference or a second parentless node.
C31_MutatingCallsSerialized ==
    /\ \A t, u \in Threads : (MidCall(t) /\ MidCall(u)) => t = u
    /\ ~DuplicatedChild
    /\ ~DanglingParent
    /\ Cardinality(Parentless(Store)) <= 1


\* ------------------------------------------------------------------- C33
\* Iterations of `while current is not None: current = parent of current`
\* (the cycle check, the breadcrumb walk, the backtracking of
\* compute_next_dfs), counted up to fuel; fuel + 1 when the walk has not
\* ended by then.
RECURSIVE UpSteps(_, _, _)
UpSteps(s, current, fuel) ==
    IF current = None THEN 0
    ELSE IF fuel = 0 THEN 1
    ELSE 1 + UpSteps(s, s.nodes[current].parent_id, fuel - 1)

\* Iterations of the loop of _rightmost_descendant, counted the same way.
RECURSIVE DownSteps(_, _, _)
DownSteps(s, current, fuel) ==
    IF s.children[current] = <<>> THEN 0
    ELSE IF fuel = 0 THEN 1
    ELSE 1 + DownSteps(s, s.children[current][Len(s.children[current])], fuel - 1)

\* Nodes taken off the queue by the loop of compute_next_bfs and
\* traverse_bfs, counted the same way.
RECURSIVE QueueSteps(_, _, _)
QueueSteps(s, queue, fuel) ==
    IF queue = <<>> THEN 0
    ELSE IF fuel = 0 THEN 1
    ELSE 1 + QueueSteps(s, Tail(queue) \o s.children[Head(queue)], fuel - 1)

\* Nodes yielded by the loop of traverse_dfs, counted the same way.
RECURSIVE DfsSteps(_, _, _)
DfsSteps(s, current, fuel) ==
    IF current = None THEN 0
    ELSE IF fuel = 0 THEN 1
    ELSE 1 + DfsSteps(s, compute_next_dfs(s, current).value, fuel - 1)

\* C33: on a fixed reachable state every read-only walk terminates: the
\* cycle check of move_node, the breadcrumb walk of build_context, the
\* ancestor backtracking of compute_next_dfs, _rightmost_descendant,
\* compute_next_bfs, and the generators traverse_dfs and traverse_bfs, which
\* each yield at most node_count() nodes before ending.
C33_WalksTerminate ==
    last = NoCall =>
        LET size == node_count(Store)
        IN  /\ \A n \in Stored :
                  /\ UpSteps(Store, n, size) <= size
                  /\ DownSteps(Store, n, size) < size
                  /\ QueueSteps(Store, <<n>>, size) <= size
                  /\ DfsSteps(Store, n, size) <= size
                  /\ Len(traverse_dfs(Store, n).value) <= size
                  /\ Len(traverse_bfs(Store, n).value) <= size
                  /\ Len(build_context(Store, n).value.breadcrumbs) < size
            /\ root_id /= None => QueueSteps(Store, <<root_id>>, size) <= size

\* a store of four nodes with a chain of three and a node with two children:
\* the walks up, down, along the queue and along the pre-order all take
\* more than one step
C33_Witness ==
    /\ last = NoCall
    /\ node_count(Store) = 4
    /\ root_id /= None
    /\ \E n \in Stored : UpSteps(Store, n, 4) = 3
    /\ DownSteps(Store, root_id, 4) >= 1
    /\ Len(children[root_id]) = 2
    /\ QueueSteps(Store, <<root_id>>, 4) = 4
    /\ DfsSteps(Store, root_id, 4) = 4

====
